---- MODULE Spec2Model ----
(***************************************************************************)
(* Jet layer of rust-simplicity: the wire codec of the generic jets        *)
(* (JetsNode) and of the Elements jets (ElementsNode), the jet executors   *)
(* on the bit machine, and the bit encoding / digesting of confidential    *)
(* assets, values and nonces.                                              *)
(***************************************************************************)
EXTENDS Integers, Sequences, FiniteSets, TLC

\* ------------------------------------------------------------------ bounds
\* Longest bit stream handed to a jet decoder (the longest code after its
\* two-bit prefix is 6 bits; longer streams carry trailing bits).
MaxStream == 7

\* Largest cursor position at which a jet finds its frames.
MaxOffset == 1

\* Cells of the active write frame beyond its cursor when a jet starts
\* (no jet writes more than 289, the width of InputPrevOutpoint's output).
WriteRoom == 292

\* The input index of a transaction environment is at most MaxIx.
MaxIx == 1

\* Most jets one evaluation executes against its transaction environment.
MaxRuns == 2

\* ------------------------------------------------------------- bit helpers
Bit == {0, 1}

RECURSIVE Pow2(_)
Pow2(n) == IF n = 0 THEN 1 ELSE 2 * Pow2(n - 1)

\* All bit strings of length 0..n.
BitStrings(n) == UNION {[1..k -> Bit] : k \in 0..n}

\* Value of a bit string read most significant bit first.
RECURSIVE BitsToNat(_)
BitsToNat(s) ==
    IF Len(s) = 0 THEN 0
    ELSE 2 * BitsToNat(SubSeq(s, 1, Len(s) - 1)) + s[Len(s)]

\* The low len bits of n, most significant first (n is below 2^31).
NatToBits(n, len) ==
    [i \in 1..len |-> IF len - i > 30 THEN 0 ELSE (n \div Pow2(len - i)) % 2]

IsPrefixOf(p, s) == Len(p) <= Len(s) /\ SubSeq(s, 1, Len(p)) = p

\* ---------------------------------------------------- BitWrite / BitIter
\* BitWrite::write_u8(n, len): append the low len bits of n, MSB first.
write_u8(n, len) == NatToBits(n % Pow2(len), len)

\* Outcome of a decoder call: the jet or the error, and the number of bits
\* the call took from the iterator.
Ok(j, used)    == [tag |-> "ok", val |-> j, used |-> used]
Err(e, used)   == [tag |-> "err", val |-> e, used |-> used]
Panic(m, used) == [tag |-> "panic", val |-> m, used |-> used]
NoResult       == [tag |-> "none", val |-> "none", used |-> 0]

\* Option::None of a bit or of a number read from the iterator.
None == 0 - 1

\* BitIter::next at offset pos (bits already taken): the bit, or None.
iter_next(s, pos) == IF pos < Len(s) THEN s[pos + 1] ELSE None

\* BitIter::read_bits_be(n) at offset pos: the value, or None when the
\* stream ends first (the iterator is then exhausted).
read_bits_be(s, pos, n) ==
    IF pos + n <= Len(s) THEN BitsToNat(SubSeq(s, pos + 1, pos + n)) ELSE None

\* ------------------------------------------------------------- JetsNode
JetsNode ==
    {"Adder32", "FullAdder32", "Subtractor32", "FullSubtractor32",
     "Multiplier32", "FullMultiplier32", "Sha256HashBlock", "SchnorrAssert",
     "EqV256", "Sha256", "LessThanV32", "EqV32"}

\* JetsNode::encode
JetsNodeEncode(j) ==
    CASE j = "Adder32"          -> write_u8(48 + 0, 6)
      [] j = "Subtractor32"     -> write_u8(48 + 1, 6)
      [] j = "Multiplier32"     -> write_u8(24 + 1, 5)
      [] j = "FullAdder32"      -> write_u8(48 + 2, 6)
      [] j = "FullSubtractor32" -> write_u8(48 + 3, 6)
      [] j = "FullMultiplier32" -> write_u8(24 + 3, 5)
      [] j = "Sha256HashBlock"  -> write_u8(14, 4)
      [] j = "SchnorrAssert"    -> write_u8(15 * 16 + 0, 8)
      [] j = "EqV256"           -> write_u8(15 * 16 + 1, 8)
      [] j = "Sha256"           -> write_u8(15 * 16 + 2, 8)
      [] j = "LessThanV32"      -> write_u8(15 * 16 + 3, 8)
      [] j = "EqV32"            -> write_u8(15 * 16 + 3, 8)

\* The inner match of JetsNode::decode on the 4-bit custom-jet code.
JetsCustomCode(code, used) ==
    CASE code = 0 -> Ok("SchnorrAssert", used)
      [] code = 1 -> Ok("EqV256", used)
      [] code = 2 -> Ok("Sha256", used)
      [] code = 3 -> Ok("LessThanV32", used)
      [] code = 4 -> Ok("EqV32", used)
      [] OTHER    -> Panic("unreachable", used)

\* JetsNode::decode on the stream s (the bits after the prefix 11).
JetsNodeDecode(s) ==
    LET b1 == iter_next(s, 0) IN
    IF b1 = None THEN Err("EndOfStream", 0)
    ELSE IF b1 = 0 THEN
        LET code == read_bits_be(s, 1, 2) IN
        IF code = None THEN Err("EndOfStream", Len(s))
        ELSE CASE code = 0 ->
                    LET b == iter_next(s, 3) IN
                    IF b = None THEN Err("EndOfStream", 3)
                    ELSE IF b = 0 THEN Ok("Adder32", 4)
                    ELSE Ok("Subtractor32", 4)
               [] code = 1 -> Ok("Multiplier32", 3)
               [] code = 2 ->
                    LET b == iter_next(s, 3) IN
                    IF b = None THEN Err("EndOfStream", 3)
                    ELSE IF b = 0 THEN Ok("FullAdder32", 4)
                    ELSE Ok("FullSubtractor32", 4)
               [] code = 3 -> Ok("FullMultiplier32", 3)
               [] OTHER    -> Panic("unreachable", 3)
    ELSE
        LET b2 == iter_next(s, 1) IN
        IF b2 = None THEN Err("EndOfStream", 1)
        ELSE IF b2 = 0 THEN Ok("Sha256HashBlock", 2)
        ELSE
            LET code == read_bits_be(s, 2, 4) IN
            IF code = None THEN Err("EndOfStream", Len(s))
            ELSE JetsCustomCode(code, 6)

\* Bits the host reads before it calls JetsNode::decode.
JetsPrefix == <<1, 1>>

\* --------------------------------------------------------- ElementsNode
ElementsNode ==
    {"Version", "LockTime", "InputIsPegin", "InputPrevOutpoint", "InputAsset",
     "InputAmount", "InputScriptHash", "InputSequence",
     "InputIssuanceBlinding", "InputIssuanceContract", "InputIssuanceEntropy",
     "InputIssuanceAssetAmount", "InputIssuanceTokenAmount", "OutputAsset",
     "OutputAmount", "OutputNonce", "OutputScriptHash", "OutputNullDatum",
     "ScriptCmr", "CurrentIndex", "CurrentIsPegin", "CurrentPrevOutpoint",
     "CurrentAsset", "CurrentAmount", "CurrentScriptHash", "CurrentSequence",
     "CurrentIssuanceBlinding", "CurrentIssuanceContract",
     "CurrentIssuanceEntropy", "CurrentIssuanceAssetAmount",
     "CurrentIssuanceTokenAmount", "InputsHash", "OutputsHash", "NumInputs",
     "NumOutputs", "Fee"}

\* ElementsNode::encode
ElementsNodeEncode(j) ==
    CASE j = "Version"                    -> write_u8(128 + 0, 8)
      [] j = "LockTime"                   -> write_u8(128 + 1, 8)
      [] j = "InputIsPegin"               -> write_u8(64 + 1, 7)
      [] j = "InputPrevOutpoint"          -> write_u8(64 + 2, 7)
      [] j = "InputAsset"                 -> write_u8(64 + 3, 7)
      [] j = "InputAmount"                -> write_u8(128 + 2, 8)
      [] j = "InputScriptHash"            -> write_u8(128 + 3, 8)
      [] j = "InputSequence"              -> write_u8(64 + 5, 7)
      [] j = "InputIssuanceBlinding"      -> write_u8(64 + 6, 7)
      [] j = "InputIssuanceContract"      -> write_u8(64 + 7, 7)
      [] j = "InputIssuanceEntropy"       -> write_u8(128 + 4, 8)
      [] j = "InputIssuanceAssetAmount"   -> write_u8(128 + 5, 8)
      [] j = "InputIssuanceTokenAmount"   -> write_u8(64 + 9, 7)
      [] j = "OutputAsset"                -> write_u8(64 + 10, 7)
      [] j = "OutputAmount"               -> write_u8(64 + 11, 7)
      [] j = "OutputNonce"                -> write_u8(128 + 6, 8)
      [] j = "OutputScriptHash"           -> write_u8(128 + 7, 8)
      [] j = "OutputNullDatum"            -> write_u8(64 + 13, 7)
      [] j = "ScriptCmr"                  -> write_u8(64 + 14, 7)
      [] j = "CurrentIndex"               -> write_u8(64 + 15, 7)
      [] j = "CurrentIsPegin"             -> write_u8(64 + 16, 7)
      [] j = "CurrentPrevOutpoint"        -> write_u8(64 + 17, 7)
      [] j = "CurrentAsset"               -> write_u8(64 + 18, 7)
      [] j = "CurrentAmount"              -> write_u8(64 + 19, 7)
      [] j = "CurrentScriptHash"          -> write_u8(64 + 20, 7)
      [] j = "CurrentSequence"            -> write_u8(64 + 21, 7)
      [] j = "CurrentIssuanceBlinding"    -> write_u8(64 + 22, 7)
      [] j = "CurrentIssuanceContract"    -> write_u8(64 + 23, 7)
      [] j = "CurrentIssuanceEntropy"     -> write_u8(64 + 24, 7)
      [] j = "CurrentIssuanceAssetAmount" -> write_u8(64 + 25, 7)
      [] j = "CurrentIssuanceTokenAmount" -> write_u8(64 + 26, 7)
      [] j = "InputsHash"                 -> write_u8(64 + 27, 7)
      [] j = "OutputsHash"                -> write_u8(64 + 28, 7)
      [] j = "NumInputs"                  -> write_u8(64 + 29, 7)
      [] j = "NumOutputs"                 -> write_u8(64 + 30, 7)
      [] j = "Fee"                        -> write_u8(64 + 31, 7)

\* A paired code that settles on its first jet when the stream ends before
\* the extra bit.
ElementsPairDefault(s, j0, j1) ==
    LET b == iter_next(s, 5) IN
    IF b = None THEN Ok(j0, 5)
    ELSE IF b = 0 THEN Ok(j0, 6)
    ELSE Ok(j1, 6)

\* A primary code of ElementsNode::decode that takes one more bit to tell
\* two jets apart.
ElementsPair(s, j0, j1) ==
    LET b == iter_next(s, 5) IN
    IF b = None THEN Err("EndOfStream", 5)
    ELSE IF b = 0 THEN Ok(j0, 6)
    ELSE Ok(j1, 6)

\* ElementsNode::decode on the stream s (the bits after the prefix 10).
ElementsNodeDecode(s) ==
    LET code == read_bits_be(s, 0, 5) IN
    IF code = None THEN Err("EndOfStream", Len(s))
    ELSE CASE code = 0  -> ElementsPair(s, "Version", "LockTime")
           [] code = 1  -> Ok("InputIsPegin", 5)
           [] code = 2  -> Ok("InputPrevOutpoint", 5)
           [] code = 3  -> Ok("InputAsset", 5)
           [] code = 4  -> ElementsPair(s, "InputAmount", "InputScriptHash")
           [] code = 5  -> Ok("InputSequence", 5)
           [] code = 6  -> Ok("InputIssuanceBlinding", 5)
           [] code = 7  -> Ok("InputIssuanceContract", 5)
           [] code = 8  -> ElementsPair(s, "InputIssuanceEntropy",
                                        "InputIssuanceAssetAmount")
           [] code = 9  -> Ok("InputIssuanceTokenAmount", 5)
           [] code = 10 -> Ok("OutputAsset", 5)
           [] code = 11 -> Ok("OutputAmount", 5)
           [] code = 12 -> ElementsPair(s, "OutputNonce", "OutputScriptHash")
           [] code = 13 -> Ok("OutputNullDatum", 5)
           [] code = 14 -> Ok("ScriptCmr", 5)
           [] code = 15 -> Ok("CurrentIndex", 5)
           [] code = 16 -> Ok("CurrentIsPegin", 5)
           [] code = 17 -> Ok("CurrentPrevOutpoint", 5)
           [] code = 18 -> Ok("CurrentAsset", 5)
           [] code = 19 -> Ok("CurrentAmount", 5)
           [] code = 20 -> Ok("CurrentScriptHash", 5)
           [] code = 21 -> Ok("CurrentSequence", 5)
           [] code = 22 -> Ok("CurrentIssuanceBlinding", 5)
           [] code = 23 -> Ok("CurrentIssuanceContract", 5)
           [] code = 24 -> Ok("CurrentIssuanceEntropy", 5)
           [] code = 25 -> Ok("CurrentIssuanceAssetAmount", 5)
           [] code = 26 -> Ok("CurrentIssuanceTokenAmount", 5)
           [] code = 27 -> Ok("InputsHash", 5)
           [] code = 28 -> Ok("OutputsHash", 5)
           [] code = 29 -> Ok("NumInputs", 5)
           [] code = 30 -> Ok("NumOutputs", 5)
           [] code = 31 -> Ok("Fee", 5)
           [] OTHER     -> Panic("unreachable", 5)

\* Bits the host reads before it calls ElementsNode::decode.
ElementsPrefix == <<1, 0>>

\* ------------------------------------------------------------ BitMachine
\* The active read frame rd with cursor rc, the active write frame wr with
\* cursor wc, and the failure the machine has recorded ("none" when it has
\* not failed).  A failed machine ignores further operations.  The frames
\* beneath the active ones are the stacks read and write, top first, each
\* frame [bits, c].
Zeros(n) == [i \in 1..n |-> 0]

NewMachine(rd, rc, wr, wc) ==
    [rd |-> rd, rc |-> rc, wr |-> wr, wc |-> wc, fail |-> "none",
     read |-> <<>>, write |-> <<>>]

\* Bytes as bits, each byte most significant bit first, and back.
BytesToBits(bytes) ==
    [i \in 1..(8 * Len(bytes)) |->
        (bytes[((i - 1) \div 8) + 1] \div Pow2(7 - ((i - 1) % 8))) % 2]

\* The byte made of the 8 bits that follow position k.
ByteAt(bits, k) ==
    128 * bits[k + 1] + 64 * bits[k + 2] + 32 * bits[k + 3] + 16 * bits[k + 4]
        + 8 * bits[k + 5] + 4 * bits[k + 6] + 2 * bits[k + 7] + bits[k + 8]

BitsToBytes(bits) ==
    [k \in 1..(Len(bits) \div 8) |-> ByteAt(bits, 8 * (k - 1))]

\* Read n bits at the read cursor: [val, mac].  Reading past the end of the
\* frame fails with OutOfBounds.
ReadBits(m, n) ==
    IF m.fail # "none" THEN [val |-> Zeros(n), mac |-> m]
    ELSE IF m.rc + n > Len(m.rd)
         THEN [val |-> Zeros(n), mac |-> [m EXCEPT !.fail = "OutOfBounds"]]
    ELSE [val |-> SubSeq(m.rd, m.rc + 1, m.rc + n), mac |-> [m EXCEPT !.rc = @ + n]]

\* Write the bits at the write cursor.  Writing past the end of the frame
\* fails with OutOfBounds.
WriteBits(m, bits) ==
    IF m.fail # "none" THEN m
    ELSE IF m.wc + Len(bits) > Len(m.wr) THEN [m EXCEPT !.fail = "OutOfBounds"]
    ELSE [m EXCEPT
            !.wr = [i \in 1..Len(m.wr) |->
                       IF i > m.wc /\ i <= m.wc + Len(bits)
                       THEN bits[i - m.wc] ELSE m.wr[i]],
            !.wc = @ + Len(bits)]

read_bit(m) ==
    LET r == ReadBits(m, 1) IN [val |-> r.val[1], mac |-> r.mac]

\* A u32 or u64 is kept as its 32 or 64 bits, most significant first.
read_u32(m) == ReadBits(m, 32)

read_bytes(m, n) ==
    LET r == ReadBits(m, 8 * n) IN [val |-> BitsToBytes(r.val), mac |-> r.mac]

read_32bytes(m) == read_bytes(m, 32)

write_bit(m, b) == WriteBits(m, <<b>>)

write_u32(m, x) == WriteBits(m, x)

write_u64(m, x) == WriteBits(m, x)

write_bytes(m, bytes) == WriteBits(m, BytesToBits(bytes))

\* Advance the write cursor by k without writing.
skip(m, k) ==
    IF m.fail # "none" THEN m
    ELSE IF m.wc + k > Len(m.wr) THEN [m EXCEPT !.fail = "OutOfBounds"]
    ELSE [m EXCEPT !.wc = @ + k]

\* fwd(k): move the read cursor k bits on; it must not exceed the frame.
fwd(m, k) ==
    IF m.fail # "none" THEN m
    ELSE IF m.rc + k > Len(m.rd) THEN [m EXCEPT !.fail = "OutOfBounds"]
    ELSE [m EXCEPT !.rc = @ + k]

\* A back that stops at the start of the frame.
back_saturating(m, k) ==
    IF m.fail # "none" THEN m
    ELSE IF m.rc < k THEN [m EXCEPT !.rc = 0]
    ELSE [m EXCEPT !.rc = @ - k]

\* back(k): move the read cursor k bits back; it must not cross 0.
back(m, k) ==
    IF m.fail # "none" THEN m
    ELSE IF m.rc < k THEN [m EXCEPT !.fail = "OutOfBounds"]
    ELSE [m EXCEPT !.rc = @ - k]

\* new_frame(n): push a fresh write frame of n bits, cursor 0.
new_frame(m, n) ==
    IF m.fail # "none" THEN m
    ELSE [m EXCEPT !.write = <<[bits |-> m.wr, c |-> m.wc]>> \o @,
                   !.wr = Zeros(n),
                   !.wc = 0]

\* A move_frame that hands the frame over however little of it is written.
move_frame_unchecked(m) ==
    IF m.fail # "none" THEN m
    ELSE [m EXCEPT !.read = <<[bits |-> m.rd, c |-> m.rc]>> \o @,
                   !.rd = m.wr,
                   !.rc = 0,
                   !.wr = Head(m.write).bits,
                   !.wc = Head(m.write).c,
                   !.write = Tail(@)]

\* move_frame(): pop the top write frame, reset its cursor to 0 and push it
\* as the top read frame; it fails unless the frame is fully written.  The
\* machine holds a write frame beneath the one that is moved.
move_frame(m) ==
    IF m.fail # "none" THEN m
    ELSE IF m.wc # Len(m.wr) THEN [m EXCEPT !.fail = "OutOfBounds"]
    ELSE [m EXCEPT !.read = <<[bits |-> m.rd, c |-> m.rc]>> \o @,
                   !.rd = m.wr,
                   !.rc = 0,
                   !.wr = Head(m.write).bits,
                   !.wc = Head(m.write).c,
                   !.write = Tail(@)]

\* drop_frame(): pop the top read frame; in strict mode it fails while a bit
\* of the frame is unread.  The machine holds a read frame beneath it.
drop_frame(m) ==
    IF m.fail # "none" THEN m
    ELSE IF m.rc # Len(m.rd) THEN [m EXCEPT !.fail = "OutOfBounds"]
    ELSE [m EXCEPT !.rd = Head(m.read).bits,
                   !.rc = Head(m.read).c,
                   !.read = Tail(@)]

\* ----------------------------------------------------------------- SHA-256
\* The hash functions are abstracted: a 32-byte value computed from the
\* length and a position-weighted sum of the input bytes.
\* The sum of i * (bytes[i] + 1) for i in lo..hi.
RECURSIVE WeightedRange(_, _, _)
WeightedRange(bytes, lo, hi) ==
    IF lo > hi THEN 0
    ELSE IF lo = hi THEN lo * (bytes[lo] + 1)
    ELSE WeightedRange(bytes, lo, (lo + hi) \div 2)
            + WeightedRange(bytes, ((lo + hi) \div 2) + 1, hi)

WeightedSum(bytes) == WeightedRange(bytes, 1, Len(bytes))

DigestOf(tweak, bytes) ==
    LET w == WeightedSum(bytes) + tweak IN
    [i \in 1..32 |->
        IF i = 1 THEN 128 + tweak
        ELSE IF i = 31 THEN (w \div 256) % 256
        ELSE IF i = 32 THEN w % 256
        ELSE 0]

\* sha256::Hash::hash(data)
sha256_hash(bytes) == DigestOf(1, bytes)

\* The midstate after the engine resumed from midstate mid takes the block.
sha256_midstate(mid, block) == DigestOf(2, mid \o block)

\* ------------------------------------------------------ outcomes of exec
\* exec returns nothing: it either returns, leaving the machine as it made
\* it, or panics (assert!, unreachable!, unimplemented!, an index out of
\* range), which unwinds out of the evaluation.
Returns(m)    == [tag |-> "ok", val |-> "none", mac |-> m]
Panics(m, why) == [tag |-> "panic", val |-> why, mac |-> m]

\* Fixed-width unsigned arithmetic.  Integers of the checker are narrower
\* than u32, so a u32 or u64 is its big-endian bytes and the arithmetic runs
\* byte by byte.
RECURSIVE AddBytes(_, _, _)
AddBytes(x, y, cin) ==
    IF Len(x) = 0 THEN [sum |-> <<>>, carry |-> cin]
    ELSE LET n  == Len(x)
             tot == x[n] + y[n] + cin
             hi == AddBytes(SubSeq(x, 1, n - 1), SubSeq(y, 1, n - 1), tot \div 256)
         IN  [sum |-> Append(hi.sum, tot % 256), carry |-> hi.carry]

\* a + b + c on bit strings of equal length (a multiple of 8): the sum
\* modulo 2^length and the carry out.
AddBits(a, b, c) ==
    LET r == AddBytes(BitsToBytes(a), BitsToBytes(b), c)
    IN  [sum |-> BytesToBits(r.sum), carry |-> r.carry]

NotBits(a) == [i \in 1..Len(a) |-> 1 - a[i]]

ZeroExtend(a, n) == Zeros(n - Len(a)) \o a

\* a < b on bit strings of equal length.
LessBits(a, b) ==
    \E i \in 1..Len(a) : a[i] < b[i] /\ \A k \in 1..(i - 1) : a[k] = b[k]

\* Byte i of a 4-byte value, counted from the least significant (0..3).
LowByte(x, i) == x[4 - i]

\* The sum of the byte products of x and y that weigh 256^k.
MulColumn(x, y, k) ==
    LET term(i) == IF k - i \in 0..3 THEN LowByte(x, i) * LowByte(y, k - i) ELSE 0
    IN  term(0) + term(1) + term(2) + term(3)

\* The bytes k..7 of x * y, least significant first, given the carry into
\* column k.
RECURSIVE MulBytesFrom(_, _, _, _)
MulBytesFrom(x, y, k, cin) ==
    IF k > 7 THEN <<>>
    ELSE LET tot == MulColumn(x, y, k) + cin
         IN  <<tot % 256>> \o MulBytesFrom(x, y, k + 1, tot \div 256)

Reverse(s) == [i \in 1..Len(s) |-> s[Len(s) + 1 - i]]

\* (a * b) as u64 in the place of (a as u64) * (b as u64): the product is
\* taken in 32 bits and widened afterwards.
truncating_mul(a, b) ==
    Zeros(32) \o SubSeq(
        BytesToBits(Reverse(MulBytesFrom(BitsToBytes(a), BitsToBytes(b), 0, 0))),
        33, 64)

\* (a as u64) * (b as u64) for u32 a and b: 64 bits.
widening_mul(a, b) ==
    BytesToBits(Reverse(MulBytesFrom(BitsToBytes(a), BitsToBytes(b), 0, 0)))

\* a.wrapping_add(b) in the place of a.overflowing_add(b): the overflow is
\* lost.
wrapping_add(a, b) ==
    LET r == AddBits(a, b, 0) IN [res |-> r.sum, overflow |-> FALSE]

\* a.overflowing_add(b) and a.overflowing_sub(b) on u32
overflowing_add(a, b) ==
    LET r == AddBits(a, b, 0) IN [res |-> r.sum, overflow |-> r.carry = 1]

\* a.wrapping_sub(b) in the place of a.overflowing_sub(b): the borrow is
\* lost.
wrapping_sub(a, b) ==
    LET r == AddBits(a, NotBits(b), 1) IN [res |-> r.sum, overflow |-> FALSE]

overflowing_sub(a, b) ==
    LET r == AddBits(a, NotBits(b), 1) IN [res |-> r.sum, overflow |-> r.carry = 0]

BoolBit(b) == IF b THEN 1 ELSE 0

\* JetsNode::exec
JetsNodeExec(j, mach) ==
    CASE j = "Adder32" ->
            LET xa == read_u32(mach)
                xb == read_u32(xa.mac)
                s1 == overflowing_add(xa.val, xb.val)
            IN  Returns(write_u32(write_bit(xb.mac, BoolBit(s1.overflow)), s1.res))
      [] j = "FullAdder32" ->
            LET xa == read_u32(mach)
                xb == read_u32(xa.mac)
                xc == read_bit(xb.mac)
                s1 == overflowing_add(xa.val, xb.val)
                s2 == overflowing_add(s1.res, ZeroExtend(<<xc.val>>, 32))
            IN  Returns(write_u32(write_bit(xc.mac,
                            BoolBit(s1.overflow \/ s2.overflow)), s2.res))
      [] j = "Subtractor32" ->
            LET xa == read_u32(mach)
                xb == read_u32(xa.mac)
                s1 == overflowing_sub(xa.val, xb.val)
            IN  Returns(write_u32(write_bit(xb.mac, BoolBit(s1.overflow)), s1.res))
      [] j = "FullSubtractor32" ->
            LET xa == read_u32(mach)
                xb == read_u32(xa.mac)
                xc == read_bit(xb.mac)
                s1 == overflowing_sub(xa.val, xb.val)
                s2 == overflowing_sub(s1.res, ZeroExtend(<<xc.val>>, 32))
            IN  Returns(write_u32(write_bit(xc.mac,
                            BoolBit(s1.overflow \/ s2.overflow)), s2.res))
      [] j = "Multiplier32" ->
            LET xa == read_u32(mach)
                xb == read_u32(xa.mac)
            IN  Returns(write_u64(xb.mac, widening_mul(xa.val, xb.val)))
      [] j = "FullMultiplier32" ->
            LET xa == read_u32(mach)
                xb == read_u32(xa.mac)
                xc == read_u32(xb.mac)
                xd == read_u32(xc.mac)
                p1 == widening_mul(xa.val, xb.val)
                p2 == AddBits(p1, ZeroExtend(xc.val, 64), 0).sum
            IN  Returns(write_u64(xd.mac, AddBits(p2, ZeroExtend(xd.val, 64), 0).sum))
      [] j = "Sha256HashBlock" ->
            LET hash  == read_32bytes(mach)
                block == read_bytes(hash.mac, 64)
            IN  Returns(write_bytes(block.mac, sha256_midstate(hash.val, block.val)))
      [] j = "SchnorrAssert" ->
            LET pubkey == read_32bytes(mach)
                sig    == read_bytes(pubkey.mac, 64)
            IN  Returns(sig.mac)
      [] j = "EqV256" ->
            LET xa == read_32bytes(mach)
                xb == read_32bytes(xa.mac)
            IN  IF xa.val = xb.val THEN Returns(xb.mac)
                ELSE Panics(xb.mac, "assertion failed: a == b")
      [] j = "Sha256" ->
            LET data == read_32bytes(mach)
            IN  Returns(write_bytes(data.mac, sha256_hash(data.val)))
      [] j = "LessThanV32" ->
            LET xa == read_u32(mach)
                xb == read_u32(xa.mac)
            IN  IF LessBits(xa.val, xb.val) THEN Returns(xb.mac)
                ELSE Panics(xb.mac, "assertion failed: a < b")
      [] j = "EqV32" ->
            LET xa == read_u32(mach)
                xb == read_u32(xa.mac)
            IN  IF xa.val = xb.val THEN Returns(xb.mac)
                ELSE Panics(xb.mac, "assertion failed: a == b")

\* 32 bytes, all zero but the last.
Bytes32(k) == [i \in 1..32 |-> IF i = 32 THEN k ELSE 0]

\* ----------------------------------------------------- confidential fields
\* confidential::Asset, Value and Nonce: Null, Explicit(data) or
\* Confidential(prefix, commitment).  data is the 32 bytes of an explicit
\* asset or nonce, the 64 bits of an explicit value, or the 32 bytes of a
\* commitment.
Null                    == [kind |-> "Null", prefix |-> 0, data |-> <<>>]
Explicit(data)          == [kind |-> "Explicit", prefix |-> 1, data |-> data]
Confidential(prefix, c) == [kind |-> "Confidential", prefix |-> prefix, data |-> c]

\* impl SimplicityEncodable for confidential::Asset
AssetEncode(f, mach) ==
    CASE f.kind = "Null" -> Panics(mach, "unreachable")
      [] f.kind = "Explicit" ->
            Returns(write_bytes(skip(write_bit(mach, 1), 1), f.data))
      [] f.kind = "Confidential" ->
            IF f.prefix # 10 \/ f.prefix # 11
            THEN Panics(mach, "not implemented")
            ELSE Returns(write_bytes(
                    write_bit(write_bit(mach, 0), BoolBit(f.prefix = 11)), f.data))

\* impl SimplicityEncodable for confidential::Value
ValueEncode(f, mach) ==
    CASE f.kind = "Null" -> Panics(mach, "unreachable")
      [] f.kind = "Explicit" ->
            Returns(write_u64(skip(write_bit(mach, 1), 1 + 256 - 64), f.data))
      [] f.kind = "Confidential" ->
            IF f.prefix # 8 \/ f.prefix # 9
            THEN Panics(mach, "not implemented")
            ELSE Returns(write_bytes(
                    write_bit(write_bit(mach, 0), BoolBit(f.prefix = 9)), f.data))

\* impl SimplicityEncodable for confidential::Nonce
NonceEncode(f, mach) ==
    CASE f.kind = "Null" -> Returns(skip(write_bit(mach, 0), 258))
      [] f.kind = "Explicit" ->
            Returns(write_bytes(skip(write_bit(write_bit(mach, 1), 1), 1), f.data))
      [] f.kind = "Confidential" ->
            IF f.prefix # 2 \/ f.prefix # 3
            THEN Panics(mach, "not implemented")
            ELSE Returns(write_bytes(
                    write_bit(write_bit(write_bit(mach, 1), 0),
                              BoolBit(f.prefix = 3)), f.data))

\* SimplicityEncodable::simplicity_encode, by the type of the field.
simplicity_encode(ty, f, mach) ==
    CASE ty = "Asset" -> AssetEncode(f, mach)
      [] ty = "Value" -> ValueEncode(f, mach)
      [] ty = "Nonce" -> NonceEncode(f, mach)

\* ------------------------------------------------------------- digesting
\* A hash engine is the bytes it has been fed.  Digesting a component takes
\* the engine as it stands (r) and leaves it fed, or panicked; a panic
\* unwinds through the components that would follow.
Fed(e)             == [tag |-> "ok", val |-> "none", eng |-> e]
HashPanics(e, why) == [tag |-> "panic", val |-> why, eng |-> e]

\* eng.input(bytes), eng.write_u8, eng.write_u32, eng.write_u64
EngInput(r, bytes) == IF r.tag = "ok" THEN Fed(r.eng \o bytes) ELSE r

\* assert!(cond) while digesting
HashAssert(r, cond, why) ==
    IF r.tag = "ok" /\ ~cond THEN HashPanics(r.eng, why) ELSE r

\* impl SimplicityHash for confidential::Asset
AssetHash(f, r) ==
    CASE f.kind = "Null"     -> EngInput(r, <<0>>)
      [] f.kind = "Explicit" -> EngInput(EngInput(r, <<1>>), f.data)
      [] f.kind = "Confidential" ->
            EngInput(EngInput(
                HashAssert(r, f.prefix = 10 \/ f.prefix = 11,
                           "assertion failed: prefix == 0x0a || prefix == 0x0b"),
                <<f.prefix>>), f.data)

\* impl SimplicityHash for confidential::Value
ValueHash(f, r) ==
    CASE f.kind = "Null"     -> EngInput(r, <<0>>)
      [] f.kind = "Explicit" -> EngInput(EngInput(r, <<1>>), BitsToBytes(f.data))
      [] f.kind = "Confidential" ->
            EngInput(EngInput(
                HashAssert(r, f.prefix = 8 \/ f.prefix = 9,
                           "assertion failed: prefix == 0x08 || prefix == 0x09"),
                <<f.prefix>>), f.data)

\* impl SimplicityHash for confidential::Nonce
NonceHash(f, r) ==
    CASE f.kind = "Null"     -> EngInput(r, <<0>>)
      [] f.kind = "Explicit" -> EngInput(EngInput(r, <<1>>), f.data)
      [] f.kind = "Confidential" ->
            EngInput(EngInput(
                HashAssert(r, f.prefix = 2 \/ f.prefix = 3,
                           "assertion failed: prefix == 0x02 || prefix == 0x03"),
                <<f.prefix>>), f.data)

\* SimplicityHash::simplicity_hash, by the type of the field.
simplicity_hash(ty, f, r) ==
    CASE ty = "Asset" -> AssetHash(f, r)
      [] ty = "Value" -> ValueHash(f, r)
      [] ty = "Nonce" -> NonceHash(f, r)

\* impl SimplicityHash for bitcoin::Script
ScriptHash(script, r) == EngInput(r, sha256_hash(script))

\* A reissue told by the first byte of the blinding nonce alone.
is_asset_reissue_first_byte(issuance) == issuance.asset_blinding_nonce[1] # 0

is_asset_reissue(issuance)   == issuance.asset_blinding_nonce # Bytes32(0)

is_asset_new_issue(issuance) == issuance.asset_blinding_nonce = Bytes32(0)

\* A digest of an issuance that takes the inflation keys as they are stored,
\* reissue or not.
AssetIssuanceHashStored(issuance, r) ==
    EngInput(EngInput(ValueHash(issuance.inflation_keys,
                                ValueHash(issuance.amount, r)),
                      issuance.asset_blinding_nonce),
             issuance.asset_entropy)

\* impl SimplicityHash for AssetIssuance
AssetIssuanceHash(issuance, r) ==
    LET is_new_issue == is_asset_new_issue(issuance)
        amt          == ValueHash(issuance.amount, r)
        keys         == IF is_new_issue
                        THEN ValueHash(issuance.inflation_keys, amt)
                        ELSE ValueHash(Null, amt)
    IN  EngInput(EngInput(keys, issuance.asset_blinding_nonce),
                 issuance.asset_entropy)

\* elements::TxIn::has_issuance: the issuance is not the null issuance.
has_issuance(inp) ==
    ~(inp.asset_issuance.amount.kind = "Null"
        /\ inp.asset_issuance.inflation_keys.kind = "Null")

\* A u32 as 4 bytes, the most significant first.
BigEndian(x) == BitsToBytes(x)

\* A u32 as 4 little-endian bytes.
LittleEndian(x) == Reverse(BitsToBytes(x))

\* impl SimplicityHash for elements::TxIn
TxInHash(inp, r) ==
    LET head == EngInput(EngInput(EngInput(r, inp.previous_output.txid),
                                  LittleEndian(inp.previous_output.vout)),
                         LittleEndian(inp.sequence))
    IN  IF has_issuance(inp)
        THEN AssetIssuanceHash(inp.asset_issuance, head)
        ELSE ValueHash(Null, ValueHash(Null, head))

\* The inputs digested from the last to the first, in the place of the
\* order of the vector.
RECURSIVE TxInsHashReversed(_, _)
TxInsHashReversed(inputs, r) ==
    IF Len(inputs) = 0 THEN r
    ELSE TxInHash(Head(inputs), TxInsHashReversed(Tail(inputs), r))

\* impl SimplicityHash for Vec<elements::TxIn>
RECURSIVE TxInsHash(_, _)
TxInsHash(inputs, r) ==
    IF Len(inputs) = 0 THEN r
    ELSE TxInsHash(Tail(inputs), TxInHash(Head(inputs), r))

\* impl SimplicityHash for elements::TxOut
TxOutHash(out, r) ==
    ScriptHash(out.script_pubkey,
        NonceHash(out.nonce, ValueHash(out.value, AssetHash(out.asset, r))))

\* impl SimplicityHash for Vec<elements::TxOut>
RECURSIVE TxOutsHash(_, _)
TxOutsHash(outputs, r) ==
    IF Len(outputs) = 0 THEN r
    ELSE TxOutsHash(Tail(outputs), TxOutHash(Head(outputs), r))

\* -------------------------------------------------------------- TxEnv
\* TxEnv::from_txenv: the environment, or a panic while digesting.
from_txenv(tx, utxos, ix, script_cmr) ==
    LET inp == TxInsHash(tx.input, Fed(<<>>))
        out == TxOutsHash(tx.output, Fed(<<>>))
    IN  IF inp.tag # "ok" THEN [tag |-> "panic", val |-> inp.val]
        ELSE IF out.tag # "ok" THEN [tag |-> "panic", val |-> out.val]
        ELSE [tag |-> "ok", val |-> "none",
              env |-> [tx |-> tx, utxos |-> utxos, ix |-> ix,
                       script_cmr |-> script_cmr,
                       inputs_hash |-> sha256_hash(inp.eng),
                       outputs_hash |-> sha256_hash(out.eng)]]

\* ------------------------------------------------- ElementsNode::exec
\* A u32 that is less than a small length, as an index.
usize(x) == ByteAt(x, 24)

\* The head of an index jet that writes 1 for the validity bit whatever the
\* index.
ReadIndexUnflagged(mach, len) ==
    LET r            == read_u32(mach)
        is_valid_idx == LessBits(r.val, NatToBits(len, 32))
    IN  [is_valid_idx |-> is_valid_idx, idx |-> usize(r.val) + 1,
         mac |-> write_bit(r.mac, 1)]

\* The head of an index jet: read the index, compare it with the length of
\* the vector and write the validity bit.  idx is the index counted from 1.
ReadIndex(mach, len) ==
    LET r            == read_u32(mach)
        is_valid_idx == LessBits(r.val, NatToBits(len, 32))
    IN  [is_valid_idx |-> is_valid_idx, idx |-> usize(r.val) + 1,
         mac |-> write_bit(r.mac, BoolBit(is_valid_idx))]

blinding_issuance(mach, issuance) ==
    LET is_reissue == is_asset_reissue(issuance)
        w          == write_bit(mach, BoolBit(is_reissue))
    IN  IF is_reissue THEN Returns(write_bytes(w, issuance.asset_blinding_nonce))
        ELSE Returns(skip(w, 256))

contract_issuance(mach, issuance) ==
    LET is_new_issue == is_asset_new_issue(issuance)
        w            == write_bit(mach, BoolBit(is_new_issue))
    IN  IF is_new_issue THEN Returns(write_bytes(w, issuance.asset_entropy))
        ELSE Returns(skip(w, 256))

entropy_issuance(mach, issuance) ==
    LET is_reissue == is_asset_reissue(issuance)
        w          == write_bit(mach, BoolBit(is_reissue))
    IN  IF is_reissue THEN Returns(write_bytes(w, issuance.asset_entropy))
        ELSE Returns(skip(w, 256))

asset_amt_issuance(mach, issuance, has) ==
    LET is_null_amt == issuance.amount.kind = "Null"
        w           == write_bit(mach, BoolBit(has /\ ~is_null_amt))
    IN  IF has THEN ValueEncode(issuance.amount, w)
        ELSE Returns(skip(w, 2 + 256))

inflation_amt_issuance(mach, issuance) ==
    LET is_null_amt  == issuance.amount.kind = "Null"
        is_new_issue == is_asset_new_issue(issuance)
        w            == write_bit(mach, BoolBit(is_new_issue /\ ~is_null_amt))
    IN  IF is_new_issue THEN ValueEncode(issuance.inflation_keys, w)
        ELSE Returns(skip(w, 2 + 256))

NoIssuance(mach) == Panics(mach, "assertion failed: has_issuance()")

ElementsNodeExec(j, mach, env) ==
    IF Len(env.tx.input) # Len(env.utxos)
    THEN Panics(mach, "assertion failed: txenv.tx.input.len() == txenv.utxos.len()")
    ELSE IF env.ix >= Len(env.tx.input)
    THEN Panics(mach, "index out of bounds")
    ELSE
    LET curr_inp  == env.tx.input[env.ix + 1]
        curr_utxo == env.utxos[env.ix + 1]
        input     == env.tx.input
        output    == env.tx.output
        utxos     == env.utxos
    IN
    CASE j = "Version"  -> Returns(write_u32(mach, env.tx.version))
      [] j = "LockTime" -> Returns(write_u32(mach, env.tx.lock_time))
      [] j = "InputIsPegin" ->
            LET x == ReadIndex(mach, Len(input))
                w == x.mac
                i == x.idx
            IN  IF x.is_valid_idx
                THEN Returns(write_bit(w, BoolBit(input[i].is_pegin)))
                ELSE Returns(skip(w, 1))
      [] j = "InputPrevOutpoint" ->
            LET x == ReadIndex(mach, Len(input))
                w == x.mac
                i == x.idx
            IN  IF x.is_valid_idx
                THEN Returns(write_u32(
                    write_bytes(w, input[i].previous_output.txid),
                    input[i].previous_output.vout))
                ELSE Returns(skip(w, 256 + 32))
      [] j = "InputAsset" ->
            LET x == ReadIndex(mach, Len(input))
                w == x.mac
                i == x.idx
            IN  IF x.is_valid_idx
                THEN AssetEncode(utxos[i].asset, w)
                ELSE Returns(skip(w, 2 + 256))
      [] j = "InputAmount" ->
            LET x == ReadIndex(mach, Len(input))
                w == x.mac
                i == x.idx
            IN  IF x.is_valid_idx
                THEN ValueEncode(utxos[i].value, w)
                ELSE Returns(skip(w, 2 + 256))
      [] j = "InputScriptHash" ->
            LET x == ReadIndex(mach, Len(input))
                w == x.mac
                i == x.idx
            IN  IF x.is_valid_idx
                THEN Returns(write_bytes(w, utxos[i].script_pubkey))
                ELSE Returns(skip(w, 256))
      [] j = "InputSequence" ->
            LET x == ReadIndex(mach, Len(input))
                w == x.mac
                i == x.idx
            IN  IF x.is_valid_idx
                THEN Returns(write_u32(w, input[i].sequence))
                ELSE Returns(skip(w, 32))
      [] j = "InputIssuanceBlinding" ->
            LET x == ReadIndex(mach, Len(input))
                w == x.mac
                i == x.idx
            IN  IF x.is_valid_idx
                THEN IF has_issuance(input[i])
                     THEN blinding_issuance(w, input[i].asset_issuance)
                     ELSE NoIssuance(w)
                ELSE Returns(skip(w, 1 + 256))
      [] j = "InputIssuanceContract" ->
            LET x == ReadIndex(mach, Len(input))
                w == x.mac
                i == x.idx
            IN  IF x.is_valid_idx
                THEN IF has_issuance(input[i])
                     THEN contract_issuance(w, input[i].asset_issuance)
                     ELSE NoIssuance(w)
                ELSE Returns(skip(w, 1 + 256))
      [] j = "InputIssuanceEntropy" ->
            LET x == ReadIndex(mach, Len(input))
                w == x.mac
                i == x.idx
            IN  IF x.is_valid_idx
                THEN IF has_issuance(input[i])
                     THEN entropy_issuance(w, input[i].asset_issuance)
                     ELSE NoIssuance(w)
                ELSE Returns(skip(w, 1 + 256))
      [] j = "InputIssuanceAssetAmount" ->
            LET x == ReadIndex(mach, Len(input))
                w == x.mac
                i == x.idx
            IN  IF x.is_valid_idx
                THEN asset_amt_issuance(w, input[i].asset_issuance,
                                                 has_issuance(input[i]))
                ELSE Returns(skip(w, 1 + 258))
      [] j = "InputIssuanceTokenAmount" ->
            LET x == ReadIndex(mach, Len(input))
                w == x.mac
                i == x.idx
            IN  IF x.is_valid_idx
                THEN inflation_amt_issuance(w, input[i].asset_issuance)
                ELSE Returns(skip(w, 1 + 258))
      [] j = "OutputAsset" ->
            LET x == ReadIndex(mach, Len(output))
                w == x.mac
                i == x.idx
            IN  IF x.is_valid_idx
                THEN AssetEncode(output[i].asset, w)
                ELSE Returns(skip(w, 258))
      [] j = "OutputAmount" ->
            LET x == ReadIndex(mach, Len(output))
                w == x.mac
                i == x.idx
            IN  IF x.is_valid_idx
                THEN ValueEncode(output[i].value, w)
                ELSE Returns(skip(w, 258))
      [] j = "OutputNonce" ->
            LET x == ReadIndex(mach, Len(output))
                w == x.mac
                i == x.idx
            IN  IF x.is_valid_idx
                THEN NonceEncode(output[i].nonce, w)
                ELSE Returns(skip(w, 259))
      [] j = "OutputScriptHash" ->
            LET x == ReadIndex(mach, Len(output))
                w == x.mac
                i == x.idx
            IN  IF x.is_valid_idx
                THEN Returns(write_bytes(w,
                                sha256_hash(output[i].script_pubkey)))
                ELSE Returns(skip(w, 256))
      [] j = "OutputNullDatum" -> Panics(mach, "not implemented")
      [] j = "ScriptCmr"    -> Returns(write_bytes(mach, env.script_cmr))
      [] j = "CurrentIndex" -> Returns(write_u32(mach, NatToBits(env.ix, 32)))
      [] j = "CurrentIsPegin" ->
            Returns(write_bit(mach, BoolBit(curr_inp.is_pegin)))
      [] j = "CurrentPrevOutpoint" ->
            Returns(write_u32(write_bytes(mach, curr_inp.previous_output.txid),
                              curr_inp.previous_output.vout))
      [] j = "CurrentAsset"      -> AssetEncode(curr_utxo.asset, mach)
      [] j = "CurrentAmount"     -> ValueEncode(curr_utxo.value, mach)
      [] j = "CurrentScriptHash" -> Returns(write_bytes(mach, curr_utxo.script_pubkey))
      [] j = "CurrentSequence"   -> Returns(write_u32(mach, curr_inp.sequence))
      [] j = "CurrentIssuanceBlinding" ->
            IF has_issuance(curr_inp)
            THEN blinding_issuance(mach, curr_inp.asset_issuance)
            ELSE NoIssuance(mach)
      [] j = "CurrentIssuanceContract" ->
            IF has_issuance(curr_inp)
            THEN contract_issuance(mach, curr_inp.asset_issuance)
            ELSE NoIssuance(mach)
      [] j = "CurrentIssuanceEntropy" ->
            IF has_issuance(curr_inp)
            THEN entropy_issuance(mach, curr_inp.asset_issuance)
            ELSE NoIssuance(mach)
      [] j = "CurrentIssuanceAssetAmount" ->
            asset_amt_issuance(mach, curr_inp.asset_issuance, has_issuance(curr_inp))
      [] j = "CurrentIssuanceTokenAmount" ->
            IF has_issuance(curr_inp)
            THEN inflation_amt_issuance(mach, curr_inp.asset_issuance)
            ELSE NoIssuance(mach)
      [] j = "InputsHash"  -> Returns(write_bytes(mach, env.inputs_hash))
      [] j = "OutputsHash" -> Returns(write_bytes(mach, env.outputs_hash))
      [] j = "NumInputs"   -> Returns(write_u32(mach, NatToBits(Len(input), 32)))
      [] j = "NumOutputs"  -> Returns(write_u32(mach, NatToBits(Len(output), 32)))
      [] j = "Fee"         -> Panics(mach, "not implemented")

\* ------------------------------------------------------------------ CMR
\* A CMR is kept as what it commits to: the tag it was made from and the
\* 32-byte blocks chained onto it.  The unit separator 0x1f of a tag is
\* written "/".
CmrNew(tag) == [tag |-> tag, blocks |-> <<>>]

\* Cmr::update_1(block)
update_1(cmr, block) == [cmr EXCEPT !.blocks = Append(@, block)]

\* The 32 bytes JetsNode::cmr chains onto the tag of the jets.
CmrConstants(j) ==
    CASE j = "Adder32" ->
            <<94, 166, 113, 66, 247, 117, 234, 43, 162, 133, 206, 251, 57, 193, 164, 113,
              217, 119, 106, 110, 67, 197, 149, 120, 21, 247, 232, 65, 45, 50, 109, 202>>
      [] j = "FullAdder32" ->
            <<252, 197, 202, 105, 209, 122, 63, 63, 185, 173, 59, 143, 14, 252, 122, 219,
              80, 120, 0, 224, 184, 23, 231, 204, 31, 205, 85, 163, 207, 195, 141, 186>>
      [] j = "Subtractor32" ->
            <<246, 159, 66, 68, 186, 96, 19, 70, 119, 86, 112, 147, 58, 86, 138, 172,
              118, 141, 212, 81, 45, 88, 200, 6, 139, 14, 212, 139, 145, 177, 113, 143>>
      [] j = "FullSubtractor32" ->
            <<106, 41, 241, 130, 176, 245, 253, 156, 21, 76, 121, 33, 98, 110, 203, 54,
              10, 60, 156, 138, 43, 227, 43, 247, 138, 32, 237, 31, 37, 182, 225, 253>>
      [] j = "Multiplier32" ->
            <<137, 0, 20, 86, 188, 144, 54, 127, 19, 55, 59, 48, 171, 102, 236, 149,
              43, 171, 121, 110, 59, 122, 228, 160, 90, 175, 64, 176, 12, 35, 151, 147>>
      [] j = "FullMultiplier32" ->
            <<229, 10, 90, 111, 120, 180, 9, 11, 41, 30, 100, 92, 61, 40, 10, 187,
              87, 78, 169, 169, 68, 228, 12, 33, 151, 158, 219, 140, 110, 53, 195, 244>>
      [] j = "Sha256HashBlock" ->
            <<201, 209, 50, 96, 45, 182, 61, 212, 152, 29, 165, 140, 108, 218, 211, 5,
              158, 156, 167, 3, 233, 120, 182, 39, 207, 229, 227, 229, 105, 162, 246, 118>>
      [] j = "SchnorrAssert" ->
            <<238, 174, 71, 226, 247, 135, 108, 59, 156, 188, 212, 4, 163, 56, 176, 137,
              253, 234, 223, 27, 155, 179, 130, 236, 110, 105, 113, 157, 49, 186, 236, 155>>
      [] j = "EqV256" ->
            <<238, 174, 71, 226, 247, 135, 108, 59, 156, 188, 212, 4, 163, 56, 176, 137,
              253, 234, 223, 27, 155, 179, 130, 236, 110, 105, 113, 157, 49, 186, 236, 156>>
      [] j = "Sha256" ->
            <<238, 174, 71, 226, 247, 135, 108, 59, 156, 188, 212, 4, 163, 56, 176, 137,
              253, 234, 223, 27, 155, 179, 130, 236, 110, 105, 113, 157, 49, 186, 236, 157>>
      [] j = "LessThanV32" ->
            <<238, 174, 71, 226, 247, 135, 108, 59, 156, 188, 212, 4, 163, 56, 176, 137,
              253, 234, 223, 27, 155, 179, 130, 236, 110, 105, 113, 157, 49, 186, 236, 158>>
      [] j = "EqV32" ->
            <<238, 174, 71, 226, 247, 135, 108, 59, 156, 188, 212, 4, 163, 56, 176, 137,
              253, 234, 223, 27, 155, 179, 130, 236, 110, 105, 113, 157, 49, 186, 236, 159>>

\* A CMR of a generic jet that leaves the last byte of the constant out.
JetsNodeCmrStem(j) ==
    update_1(CmrNew("Simplicity/Jet"), [CmrConstants(j) EXCEPT ![32] = 0])

\* JetsNode::cmr
JetsNodeCmr(j) == update_1(CmrNew("Simplicity/Jet"), CmrConstants(j))

\* ElementsNode::cmr
ElementsNodeCmr(j) ==
    CASE j = "Version" ->
            CmrNew("Simplicity/Primitive/Elements/version")
      [] j = "LockTime" ->
            CmrNew("Simplicity/Primitive/Elements/lockTime")
      [] j = "InputIsPegin" ->
            CmrNew("Simplicity/Primitive/Elements/inputIsPegin")
      [] j = "InputPrevOutpoint" ->
            CmrNew("Simplicity/Primitive/Elements/inputPrevOutpoint")
      [] j = "InputAsset" ->
            CmrNew("Simplicity/Primitive/Elements/inputAsset")
      [] j = "InputAmount" ->
            CmrNew("Simplicity/Primitive/Elements/inputAmount")
      [] j = "InputScriptHash" ->
            CmrNew("Simplicity/Primitive/Elements/inputScriptHash")
      [] j = "InputSequence" ->
            CmrNew("Simplicity/Primitive/Elements/inputSequence")
      [] j = "InputIssuanceBlinding" ->
            CmrNew("Simplicity/Primitive/Elements/inputIssuanceBlinding")
      [] j = "InputIssuanceContract" ->
            CmrNew("Simplicity/Primitive/Elements/inputIssuanceContract")
      [] j = "InputIssuanceEntropy" ->
            CmrNew("Simplicity/Primitive/Elements/inputIssuanceEntropy")
      [] j = "InputIssuanceAssetAmount" ->
            CmrNew("Simplicity/Primitive/Elements/inputIssuanceAssetAmt")
      [] j = "InputIssuanceTokenAmount" ->
            CmrNew("Simplicity/Primitive/Elements/inputIssuanceTokenAmt")
      [] j = "OutputAsset" ->
            CmrNew("Simplicity/Primitive/Elements/outputAsset")
      [] j = "OutputAmount" ->
            CmrNew("Simplicity/Primitive/Elements/outputAmount")
      [] j = "OutputNonce" ->
            CmrNew("Simplicity/Primitive/Elements/outputNonce")
      [] j = "OutputScriptHash" ->
            CmrNew("Simplicity/Primitive/Elements/outputScriptHash")
      [] j = "OutputNullDatum" ->
            CmrNew("Simplicity/Primitive/Elements/outputNullDatum")
      [] j = "ScriptCmr" ->
            CmrNew("Simplicity/Primitive/Elements/scriptCMR")
      [] j = "CurrentIndex" ->
            CmrNew("Simplicity/Primitive/Elements/currentIndex")
      [] j = "CurrentIsPegin" ->
            CmrNew("Simplicity/Primitive/Elements/currentIsPegin")
      [] j = "CurrentPrevOutpoint" ->
            CmrNew("Simplicity/Primitive/Elements/currentPrevOutpoint")
      [] j = "CurrentAsset" ->
            CmrNew("Simplicity/Primitive/Elements/currentAsset")
      [] j = "CurrentAmount" ->
            CmrNew("Simplicity/Primitive/Elements/currentAmount")
      [] j = "CurrentScriptHash" ->
            CmrNew("Simplicity/Primitive/Elements/currentScriptHash")
      [] j = "CurrentSequence" ->
            CmrNew("Simplicity/Primitive/Elements/currentSequence")
      [] j = "CurrentIssuanceBlinding" ->
            CmrNew("Simplicity/Primitive/Elements/currentIssuanceBlinding")
      [] j = "CurrentIssuanceContract" ->
            CmrNew("Simplicity/Primitive/Elements/currentIssuanceContract")
      [] j = "CurrentIssuanceEntropy" ->
            CmrNew("Simplicity/Primitive/Elements/currentIssuanceEntropy")
      [] j = "CurrentIssuanceAssetAmount" ->
            CmrNew("Simplicity/Primitive/Elements/currentIssuanceAssetAmt")
      [] j = "CurrentIssuanceTokenAmount" ->
            CmrNew("Simplicity/Primitive/Elements/currentIssuanceTokenAmt")
      [] j = "InputsHash" ->
            CmrNew("Simplicity/Primitive/Elements/inputsHash")
      [] j = "OutputsHash" ->
            CmrNew("Simplicity/Primitive/Elements/outputsHash")
      [] j = "NumInputs" ->
            CmrNew("Simplicity/Primitive/Elements/numInputs")
      [] j = "NumOutputs" ->
            CmrNew("Simplicity/Primitive/Elements/numOutputs")
      [] j = "Fee" ->
            CmrNew("Simplicity/Primitive/Elements/fee")

\* ------------------------------------------------------ codec: the state
VARIABLES
    cpc,     \* where the codec session stands: "idle", "encoded", "loaded",
             \* "decoded", "reencoded", or "aborted" after a panic (a
             \* session runs once, from "idle")
    family,  \* the jet enumeration of the session: "none", "jets", "elements"
    sent,    \* the jet whose code the stream holds, "none" for a raw stream
    sink,    \* the bits the BitWrite has received
    iter,    \* the bits left in the BitIter
    taken,   \* the bits the last decode took from the BitIter
    dres     \* the outcome of the last decode

codecVars == <<cpc, family, sent, sink, iter, taken, dres>>

\* ------------------------------------------------------- exec: the state
VARIABLES
    xpc,     \* where the evaluation stands: "idle", "ready" (machine set up
             \* for xjet), "done", or "aborted" after a panic
    xjet,    \* the jet or operation the machine is set up for
    mac,     \* the bit machine
    mac0,    \* the bit machine as it was when the operation started
    xout,    \* the outcome of the last operation: [tag, val]
    runs     \* the number of jets the evaluation has executed

execVars == <<xpc, xjet, mac, mac0, xout, runs>>

\* --------------------------------------------------- Elements: the state
VARIABLES
    txenv,   \* the transaction environment the Elements jets run in
    field,   \* the confidential field last encoded or digested: [ty, f]
    eng      \* the bytes the hash engine of that digest has been fed

envVars == <<txenv, field, eng>>

\* ------------------------------------------------------------ the logs
VARIABLES
    put,     \* the bits written into the newest frame, in the order written
    got,     \* the bits read from it since it was handed over
    cmrs     \* the CMRs computed so far, each with its jet

logVars == <<put, got, cmrs>>

vars == <<codecVars, execVars, envVars, logVars>>

Encode(fam, j) == IF fam = "jets" THEN JetsNodeEncode(j) ELSE ElementsNodeEncode(j)
PrefixOf(fam)  == IF fam = "jets" THEN JetsPrefix ELSE ElementsPrefix

CodecInit ==
    /\ cpc = "idle"
    /\ family = "none"
    /\ sent = "none"
    /\ sink = <<>>
    /\ iter = <<>>
    /\ taken = <<>>
    /\ dres = NoResult

\* JetsNode::encode(j) on a fresh writer.
JetsEncode(j) ==
    /\ cpc = "idle"
    /\ cpc' = "encoded"
    /\ family' = "jets"
    /\ sent' = j
    /\ sink' = JetsNodeEncode(j)
    /\ iter' = <<>>
    /\ taken' = <<>>
    /\ dres' = NoResult
    /\ UNCHANGED <<execVars, envVars, logVars>>

\* ElementsNode::encode(j) on a fresh writer.
ElementsEncode(j) ==
    /\ cpc = "idle"
    /\ cpc' = "encoded"
    /\ family' = "elements"
    /\ sent' = j
    /\ sink' = ElementsNodeEncode(j)
    /\ iter' = <<>>
    /\ taken' = <<>>
    /\ dres' = NoResult
    /\ UNCHANGED <<execVars, envVars, logVars>>

\* The written bits become the input of a BitIter, and the host reads the
\* two prefix bits that select the decoder.
Handover ==
    /\ cpc = "encoded"
    /\ IsPrefixOf(PrefixOf(family), sink)
    /\ cpc' = "loaded"
    /\ iter' = SubSeq(sink, 3, Len(sink))
    /\ taken' = <<>>
    /\ dres' = NoResult
    /\ UNCHANGED <<family, sent, sink>>
    /\ UNCHANGED <<execVars, envVars, logVars>>

\* A raw stream arrives, its prefix bits already read by the host.
Feed(fam, s) ==
    /\ cpc = "idle"
    /\ cpc' = "loaded"
    /\ family' = fam
    /\ sent' = "none"
    /\ sink' = <<>>
    /\ iter' = s
    /\ taken' = <<>>
    /\ dres' = NoResult
    /\ UNCHANGED <<execVars, envVars, logVars>>

DecodeWith(r) ==
    /\ dres' = r
    /\ taken' = SubSeq(iter, 1, r.used)
    /\ iter' = SubSeq(iter, r.used + 1, Len(iter))
    /\ cpc' = IF r.tag = "panic" THEN "aborted" ELSE "decoded"
    /\ UNCHANGED <<family, sent, sink>>
    /\ UNCHANGED <<execVars, envVars, logVars>>

\* JetsNode::decode(iter)
JetsDecode ==
    /\ cpc = "loaded"
    /\ family = "jets"
    /\ DecodeWith(JetsNodeDecode(iter))

\* ElementsNode::decode(iter)
ElementsDecode ==
    /\ cpc = "loaded"
    /\ family = "elements"
    /\ DecodeWith(ElementsNodeDecode(iter))

\* The decoded jet is encoded again, on a fresh writer.
ReEncode ==
    /\ cpc = "decoded"
    /\ dres.tag = "ok"
    /\ cpc' = "reencoded"
    /\ sink' = Encode(family, dres.val)
    /\ UNCHANGED <<family, sent, iter, taken, dres>>
    /\ UNCHANGED <<execVars, envVars, logVars>>

CodecNext ==
    \/ \E j \in JetsNode : JetsEncode(j)
    \/ \E j \in ElementsNode : ElementsEncode(j)
    \/ Handover
    \/ \E fam \in {"jets", "elements"}, s \in BitStrings(MaxStream) : Feed(fam, s)
    \/ JetsDecode
    \/ ElementsDecode
    \/ ReEncode

\* --------------------------------------------------- exec: generic jets
NoOutcome == [tag |-> "none", val |-> "none"]

IdleMachine == NewMachine(<<>>, 0, <<>>, 0)

ExecInit ==
    /\ xpc = "idle"
    /\ xjet = "none"
    /\ mac = IdleMachine
    /\ mac0 = IdleMachine
    /\ xout = NoOutcome
    /\ runs = 0

AllOnes(n) == [i \in 1..n |-> 1]

\* The u32 values the jets are run on.
U32Samples ==
    {NatToBits(0, 32), NatToBits(1, 32), NatToBits(3, 32), NatToBits(4, 32),
     NatToBits(7, 32), NatToBits(8, 32), NatToBits(65535, 32),
     NatToBits(65536, 32), NatToBits(2147483647, 32),
     <<1>> \o Zeros(31), AllOnes(32)}

U32Edge == {NatToBits(0, 32), NatToBits(1, 32), AllOnes(32)}

Bytes32Samples == {Bytes32(0), Bytes32(1), Bytes32(255)}

\* The contents of the read frame a generic jet is run on: one value of
\* its source type.
JetInputs(j) ==
    CASE j \in {"Adder32", "Subtractor32", "Multiplier32", "LessThanV32", "EqV32"} ->
            {a \o b : a \in U32Samples, b \in U32Samples}
      [] j \in {"FullAdder32", "FullSubtractor32"} ->
            {a \o b \o <<c>> : a \in U32Samples, b \in U32Samples, c \in Bit}
      [] j = "FullMultiplier32" ->
            {a \o b \o c \o d : a \in U32Edge, b \in U32Samples,
                                c \in U32Edge, d \in U32Edge}
      [] j \in {"Sha256HashBlock", "SchnorrAssert"} ->
            {BytesToBits(h \o b1 \o b2) :
                h \in Bytes32Samples, b1 \in Bytes32Samples, b2 \in Bytes32Samples}
      [] j \in {"EqV256"} ->
            {BytesToBits(a \o b) : a \in Bytes32Samples, b \in Bytes32Samples}
      [] j = "Sha256" ->
            {BytesToBits(a) : a \in Bytes32Samples}

\* The evaluator reaches a jet leaf: the active read frame holds the jet's
\* input at its cursor, the active write frame has room at its cursor.
StartMachine(input, off) ==
    NewMachine(Zeros(off) \o input, off, Zeros(off + WriteRoom), off)

JetsSetup(j, input, off) ==
    /\ xpc = "idle"
    /\ xpc' = "ready"
    /\ xjet' = j
    /\ mac' = StartMachine(input, off)
    /\ mac0' = StartMachine(input, off)
    /\ xout' = NoOutcome
    /\ UNCHANGED runs
    /\ UNCHANGED <<codecVars, envVars, logVars>>

Finish(r) ==
    /\ mac' = r.mac
    /\ xout' = [tag |-> r.tag, val |-> r.val]
    /\ xpc' = IF r.tag = "panic" THEN "aborted" ELSE "done"
    /\ runs' = runs + 1
    /\ UNCHANGED <<xjet, mac0>>
    /\ UNCHANGED <<codecVars, envVars, logVars>>

\* JetsNode::exec(mac, ())
JetsExec ==
    /\ xpc = "ready"
    /\ xjet \in JetsNode
    /\ Finish(JetsNodeExec(xjet, mac))

JetsNext ==
    \/ \E j \in JetsNode, off \in 0..MaxOffset :
            \E input \in JetInputs(j) : JetsSetup(j, input, off)
    \/ JetsExec

\* ------------------------------------------------- Elements: the actions
U32(n) == NatToBits(n, 32)

U64(n) == NatToBits(n, 64)

Issuance(amount, inflation_keys, blinding_nonce, entropy) ==
    [amount |-> amount, inflation_keys |-> inflation_keys,
     asset_blinding_nonce |-> blinding_nonce, asset_entropy |-> entropy]

NullIssuance == Issuance(Null, Null, Bytes32(0), Bytes32(0))

TxIn(is_pegin, txid, vout, sequence, issuance) ==
    [is_pegin |-> is_pegin, previous_output |-> [txid |-> txid, vout |-> vout],
     sequence |-> sequence, asset_issuance |-> issuance]

TxOut(asset, value, nonce, script) ==
    [asset |-> asset, value |-> value, nonce |-> nonce, script_pubkey |-> script]

ElementsUtxo(script_pubkey, asset, value) ==
    [script_pubkey |-> script_pubkey, asset |-> asset, value |-> value]

Transaction(version, lock_time, input, output) ==
    [version |-> version, lock_time |-> lock_time, input |-> input,
     output |-> output]

\* The inputs the transactions are made of.
PlainInput    == TxIn(FALSE, Bytes32(7), U32(0), AllOnes(32), NullIssuance)
PeginInput    == TxIn(TRUE, Bytes32(8), U32(1), U32(5), NullIssuance)
NewIssueInput == TxIn(FALSE, Bytes32(9), U32(2), U32(6),
                     Issuance(Explicit(U64(100)), Explicit(U64(3)),
                              Bytes32(0), Bytes32(21)))
ReissueInput  == TxIn(FALSE, Bytes32(10), U32(3), U32(7),
                     Issuance(Explicit(U64(50)), Null, Bytes32(33), Bytes32(22)))
TokenInput    == TxIn(FALSE, Bytes32(11), U32(4), U32(8),
                     Issuance(Null, Explicit(U64(2)), Bytes32(0), Bytes32(23)))
BlindInput    == TxIn(FALSE, Bytes32(12), U32(0), U32(9),
                     Issuance(Confidential(8, Bytes32(40)), Null,
                              Bytes32(0), Bytes32(24)))
BadInput      == TxIn(FALSE, Bytes32(13), U32(0), U32(9),
                     Issuance(Confidential(7, Bytes32(41)), Null,
                              Bytes32(0), Bytes32(25)))
StrayNonceInput == TxIn(FALSE, Bytes32(14), U32(0), U32(9),
                        Issuance(Null, Null, Bytes32(34), Bytes32(27)))

\* The outputs the transactions are made of.
ExplicitOutput == TxOut(Explicit(Bytes32(1)), Explicit(U64(200)), Null, <<81>>)
NonceOutput    == TxOut(Explicit(Bytes32(2)), Explicit(U64(1)),
                        Explicit(Bytes32(3)), <<>>)
BlindOutput    == TxOut(Confidential(10, Bytes32(50)), Confidential(9, Bytes32(51)),
                        Confidential(2, Bytes32(52)), <<81>>)
NullOutput     == TxOut(Null, Null, Null, <<>>)
BadOutput      == TxOut(Confidential(12, Bytes32(53)), Explicit(U64(1)), Null, <<>>)

\* The unspent outputs the inputs spend.
ExplicitUtxo == ElementsUtxo(Bytes32(60), Explicit(Bytes32(1)), Explicit(U64(300)))
BlindUtxo    == ElementsUtxo(Bytes32(61), Confidential(11, Bytes32(54)),
                             Confidential(8, Bytes32(55)))
BadUtxo      == ElementsUtxo(Bytes32(62), Confidential(5, Bytes32(56)),
                             Confidential(5, Bytes32(57)))
NullUtxo     == ElementsUtxo(Bytes32(63), Null, Null)

\* The transactions, each with the unspent outputs handed to from_txenv.
TxSamples ==
    { [tx    |-> Transaction(U32(2), U32(0), <<PlainInput>>,
                             <<ExplicitOutput, NonceOutput>>),
       utxos |-> <<ExplicitUtxo>>],
      [tx    |-> Transaction(U32(2), U32(9), <<PeginInput, NewIssueInput>>,
                             <<BlindOutput>>),
       utxos |-> <<ExplicitUtxo, BlindUtxo>>],
      [tx    |-> Transaction(U32(1), AllOnes(32), <<ReissueInput, TokenInput>>,
                             <<NullOutput>>),
       utxos |-> <<BadUtxo, NullUtxo>>],
      [tx    |-> Transaction(U32(2), U32(0), <<BlindInput>>, <<>>),
       utxos |-> <<BlindUtxo>>],
      [tx    |-> Transaction(U32(2), U32(0), <<PlainInput>>, <<ExplicitOutput>>),
       utxos |-> <<>>],
      [tx    |-> Transaction(U32(2), U32(0), <<BadInput>>, <<ExplicitOutput>>),
       utxos |-> <<ExplicitUtxo>>],
      [tx    |-> Transaction(U32(2), U32(0), <<PlainInput>>, <<BadOutput>>),
       utxos |-> <<ExplicitUtxo>>],
      [tx    |-> Transaction(U32(2), U32(0), <<StrayNonceInput>>, <<>>),
       utxos |-> <<ExplicitUtxo>>] }

NoEnv ==
    [tx |-> Transaction(U32(0), U32(0), <<>>, <<>>), utxos |-> <<>>, ix |-> 0,
     script_cmr |-> Bytes32(0), inputs_hash |-> Bytes32(0),
     outputs_hash |-> Bytes32(0)]

NoField == [ty |-> "none", f |-> Null]

EnvInit ==
    /\ txenv = NoEnv
    /\ field = NoField
    /\ eng = <<>>

\* TxEnv::from_txenv
FromTxEnv(sample, ix) ==
    /\ xpc = "idle"
    /\ LET r == from_txenv(sample.tx, sample.utxos, ix, Bytes32(17))
       IN  /\ xout' = [tag |-> r.tag, val |-> r.val]
           /\ xpc' = IF r.tag = "ok" THEN "env" ELSE "aborted"
           /\ txenv' = IF r.tag = "ok" THEN r.env ELSE txenv
    /\ xjet' = "from_txenv"
    /\ UNCHANGED <<mac, mac0, runs, field, eng, logVars>>
    /\ UNCHANGED codecVars

\* The contents of the read frame an Elements jet is run on: one value of
\* its source type.
ElementsInputs(j) ==
    CASE j \in {"InputIsPegin", "InputPrevOutpoint", "InputAsset", "InputAmount",
                "InputScriptHash", "InputSequence", "InputIssuanceBlinding",
                "InputIssuanceContract", "InputIssuanceEntropy",
                "InputIssuanceAssetAmount", "InputIssuanceTokenAmount",
                "OutputAsset", "OutputAmount", "OutputNonce", "OutputScriptHash"} ->
            {U32(0), U32(1), U32(2), AllOnes(32)}
      [] j = "OutputNullDatum" -> {U32(0) \o U32(0), U32(0) \o U32(1)}
      [] j = "Fee" -> {BytesToBits(Bytes32(1))}
      [] OTHER -> {<<>>}

\* The evaluator reaches a jet leaf, the first of the evaluation or the one
\* after a jet that has returned; it runs at most MaxRuns jets.
ElementsSetup(j, input, off) ==
    /\ \/ xpc = "env"
       \/ xpc = "done" /\ xjet \in ElementsNode /\ runs < MaxRuns
    /\ xpc' = "ready"
    /\ xjet' = j
    /\ mac' = StartMachine(input, off)
    /\ mac0' = StartMachine(input, off)
    /\ xout' = NoOutcome
    /\ UNCHANGED runs
    /\ UNCHANGED <<codecVars, envVars, logVars>>

\* ElementsNode::exec
ElementsExec ==
    /\ xpc = "ready"
    /\ xjet \in ElementsNode
    /\ Finish(ElementsNodeExec(xjet, mac, txenv))

FieldTypes == {"Asset", "Value", "Nonce"}

\* The two prefixes a commitment of the type may carry.
ValidPrefixes(ty) ==
    CASE ty = "Asset" -> {10, 11}
      [] ty = "Value" -> {8, 9}
      [] ty = "Nonce" -> {2, 3}

\* The fields the encodings and digests are run on.
FieldSamples(ty) ==
    {Null}
    \cup {Explicit(IF ty = "Value" THEN U64(77) ELSE Bytes32(5))}
    \cup {Confidential(p, c) : p \in {0, 2, 3, 5, 8, 9, 10, 11, 255},
                               c \in {Bytes32(1), Bytes32(255)}}

\* SimplicityEncodable::simplicity_encode on a machine with room to write
SimplicityEncode(ty, f, off) ==
    /\ xpc = "idle"
    /\ xjet' = "simplicity_encode"
    /\ field' = [ty |-> ty, f |-> f]
    /\ mac0' = StartMachine(<<>>, off)
    /\ LET r == simplicity_encode(ty, f, StartMachine(<<>>, off))
       IN  /\ mac' = r.mac
           /\ xout' = [tag |-> r.tag, val |-> r.val]
           /\ xpc' = IF r.tag = "panic" THEN "aborted" ELSE "done"
    /\ UNCHANGED <<runs, txenv, eng, logVars>>
    /\ UNCHANGED codecVars

\* SimplicityHash::simplicity_hash on a fresh engine
SimplicityHash(ty, f) ==
    /\ xpc = "idle"
    /\ xjet' = "simplicity_hash"
    /\ field' = [ty |-> ty, f |-> f]
    /\ LET r == simplicity_hash(ty, f, Fed(<<>>))
       IN  /\ eng' = r.eng
           /\ xout' = [tag |-> r.tag, val |-> r.val]
           /\ xpc' = IF r.tag = "panic" THEN "aborted" ELSE "done"
    /\ UNCHANGED <<runs, txenv, mac, mac0, logVars>>
    /\ UNCHANGED codecVars

\* The inputs and the issuances that are digested on their own.
TxInSamples ==
    {PlainInput, PeginInput, NewIssueInput, ReissueInput, TokenInput,
     BlindInput, BadInput, StrayNonceInput}

IssuanceSamples ==
    {inp.asset_issuance : inp \in TxInSamples}
    \cup {Issuance(Explicit(U64(50)), Explicit(U64(3)), Bytes32(33), Bytes32(22)),
          Issuance(Confidential(9, Bytes32(42)), Confidential(8, Bytes32(43)),
                   Bytes32(0), Bytes32(26))}

\* The digest r of the component f of type ty has been taken on a fresh
\* engine.
Digest(ty, f, r) ==
    /\ xpc = "idle"
    /\ xjet' = ty \o "::simplicity_hash"
    /\ field' = [ty |-> ty, f |-> f]
    /\ eng' = r.eng
    /\ xout' = [tag |-> r.tag, val |-> r.val]
    /\ xpc' = IF r.tag = "panic" THEN "aborted" ELSE "done"
    /\ UNCHANGED <<runs, txenv, mac, mac0, logVars>>
    /\ UNCHANGED codecVars

\* TxIn::simplicity_hash and AssetIssuance::simplicity_hash
TxInDigest(inp) == Digest("TxIn", inp, TxInHash(inp, Fed(<<>>)))

IssuanceDigest(issuance) ==
    Digest("AssetIssuance", issuance, AssetIssuanceHash(issuance, Fed(<<>>)))

ElementsNext ==
    \/ \E inp \in TxInSamples : TxInDigest(inp)
    \/ \E issuance \in IssuanceSamples : IssuanceDigest(issuance)
    \/ \E sample \in TxSamples, ix \in 0..MaxIx : FromTxEnv(sample, ix)
    \/ \E j \in ElementsNode, off \in 0..MaxOffset :
            \E input \in ElementsInputs(j) : ElementsSetup(j, input, off)
    \/ ElementsExec
    \/ \E ty \in FieldTypes, off \in 0..MaxOffset :
            \E f \in FieldSamples(ty) : SimplicityEncode(ty, f, off)
    \/ \E ty \in FieldTypes : \E f \in FieldSamples(ty) : SimplicityHash(ty, f)

LogInit ==
    /\ put = <<>>
    /\ got = <<>>
    /\ cmrs = <<>>

Init == CodecInit /\ ExecInit /\ EnvInit /\ LogInit

\* ------------------------------------------- the machine's primitives
\* Largest frame of the machine under test.
MaxFrame == 3

\* Most primitives applied to one machine.
MaxOps == 2

\* A frame of n bits, alternating from 1.
Pattern(n) == [i \in 1..n |-> i % 2]

Ones(n) == [i \in 1..n |-> 1]

\* A machine whose active read frame holds rn bits with the cursor at rc and
\* whose active write frame holds wn bits with the cursor at wc.
MachineSetup(rn, rc, wn, wc) ==
    /\ xpc = "idle"
    /\ xpc' = "ready"
    /\ xjet' = "machine"
    /\ mac' = NewMachine(Pattern(rn), rc, Zeros(wn), wc)
    /\ mac0' = mac'
    /\ xout' = NoOutcome
    /\ UNCHANGED runs
    /\ UNCHANGED <<codecVars, envVars, logVars>>

\* The primitive op(k) takes the machine from mac to m.
Primitive(op, k, m) ==
    /\ xpc = "ready"
    /\ xjet = "machine"
    /\ runs < MaxOps
    /\ mac0' = mac
    /\ mac' = m
    /\ xout' = [tag |-> op, val |-> k]
    /\ runs' = runs + 1
    /\ UNCHANGED <<xpc, xjet>>
    /\ UNCHANGED <<codecVars, envVars, logVars>>

MachineRead(k)  == Primitive("read", k, ReadBits(mac, k).mac)
MachineWrite(k) == Primitive("write", k, WriteBits(mac, Ones(k)))
MachineSkip(k)  == Primitive("skip", k, skip(mac, k))
MachineFwd(k)   == Primitive("fwd", k, fwd(mac, k))
MachineBack(k)  == Primitive("back", k, back(mac, k))

MachineNext ==
    \/ \E rn \in 0..MaxFrame, wn \in 0..MaxFrame :
          \E rc \in 0..rn, wc \in 0..wn : MachineSetup(rn, rc, wn, wc)
    \/ \E k \in 0..(MaxFrame + 1) : MachineRead(k)
    \/ \E k \in 0..(MaxFrame + 1) : MachineWrite(k)
    \/ \E k \in 0..(MaxFrame + 1) : MachineSkip(k)
    \/ \E k \in 0..(MaxFrame + 1) : MachineFwd(k)
    \/ \E k \in 0..(MaxFrame + 1) : MachineBack(k)

MachineSpec == Init /\ [][MachineNext]_vars

\* ------------------------------------------------- the frame hand-over
\* Largest frame pushed with new_frame.
MaxBits == 9

\* The bytes given to write_bytes.
ByteSamples == {<<165>>, <<60>>}

\* A machine with one frame on each stack, as the evaluator holds it between
\* two combinators.
FrameSetup ==
    /\ xpc = "idle"
    /\ xpc' = "ready"
    /\ xjet' = "frames"
    /\ mac' = NewMachine(Pattern(2), 0, Zeros(2), 0)
    /\ mac0' = mac'
    /\ xout' = NoOutcome
    /\ UNCHANGED <<runs, logVars>>
    /\ UNCHANGED <<codecVars, envVars>>

\* The frame operation op takes the machine from mac to m.
FrameOp(op, m) ==
    /\ xpc = "ready"
    /\ xjet \in {"frames", "new_frame", "write_bit", "write_bytes",
                 "move_frame", "read_bit", "drop_frame"}
    /\ xjet' = op
    /\ mac0' = mac
    /\ mac' = m
    /\ UNCHANGED <<xpc, runs, cmrs>>
    /\ UNCHANGED <<codecVars, envVars>>

\* new_frame(n), when only the evaluator's frame is on the write stack.
NewFrame(n) ==
    /\ mac.write = <<>>
    /\ mac.read = <<>>
    /\ FrameOp("new_frame", new_frame(mac, n))
    /\ xout' = [tag |-> "new_frame", val |-> n]
    /\ put' = <<>>
    /\ got' = <<>>

\* write_bit(b) on the pushed frame.
WriteBit(b) ==
    /\ mac.write # <<>>
    /\ LET m == write_bit(mac, b)
       IN  /\ FrameOp("write_bit", m)
           /\ put' = IF m.fail = "none" /\ mac.fail = "none"
                     THEN put \o <<b>> ELSE put
    /\ xout' = [tag |-> "write_bit", val |-> b]
    /\ UNCHANGED got

\* write_bytes(bytes) on the pushed frame.
WriteBytes(bytes) ==
    /\ mac.write # <<>>
    /\ LET m == write_bytes(mac, bytes)
       IN  /\ FrameOp("write_bytes", m)
           /\ put' = IF m.fail = "none" /\ mac.fail = "none"
                     THEN put \o BytesToBits(bytes) ELSE put
    /\ xout' = [tag |-> "write_bytes", val |-> Len(bytes)]
    /\ UNCHANGED got

\* move_frame() of the pushed frame.
MoveFrame ==
    /\ mac.write # <<>>
    /\ FrameOp("move_frame", move_frame(mac))
    /\ xout' = [tag |-> "move_frame", val |-> 0]
    /\ UNCHANGED <<put, got>>

\* read_bit() on the frame handed over.
ReadBit ==
    /\ mac.read # <<>>
    /\ LET r == read_bit(mac)
       IN  /\ FrameOp("read_bit", r.mac)
           /\ xout' = [tag |-> "read_bit", val |-> r.val]
           /\ got' = IF r.mac.fail = "none" THEN got \o <<r.val>> ELSE got
    /\ UNCHANGED put

\* drop_frame() of the frame handed over.
DropFrame ==
    /\ mac.read # <<>>
    /\ FrameOp("drop_frame", drop_frame(mac))
    /\ xout' = [tag |-> "drop_frame", val |-> 0]
    /\ UNCHANGED <<put, got>>

FrameNext ==
    \/ FrameSetup
    \/ \E n \in 0..MaxBits : NewFrame(n)
    \/ \E b \in Bit : WriteBit(b)
    \/ \E bytes \in ByteSamples : WriteBytes(bytes)
    \/ MoveFrame
    \/ ReadBit
    \/ DropFrame

FrameSpec == Init /\ [][FrameNext]_vars

\* ------------------------------------------------------ the jets' CMRs
\* Most CMRs computed one after the other.
MaxCmrs == 2

\* The CMR c of the jet j is computed.
ComputeCmr(j, c) ==
    /\ Len(cmrs) < MaxCmrs
    /\ cmrs' = Append(cmrs, [jet |-> j, cmr |-> c])
    /\ UNCHANGED <<put, got>>
    /\ UNCHANGED <<codecVars, execVars, envVars>>

\* JetsNode::cmr and ElementsNode::cmr
JetsCmr(j) == ComputeCmr(j, JetsNodeCmr(j))

ElementsCmr(j) == ComputeCmr(j, ElementsNodeCmr(j))

CmrNext ==
    \/ \E j \in JetsNode : JetsCmr(j)
    \/ \E j \in ElementsNode : ElementsCmr(j)

CmrSpec == Init /\ [][CmrNext]_vars

ElementsSpec == Init /\ [][ElementsNext]_vars

CodecSpec == Init /\ [][CodecNext]_vars

JetsSpec == Init /\ [][JetsNext]_vars

\* ------------------------------------------------------ codec: the claims
\* A decode has returned or panicked.
Decoded == cpc \in {"decoded", "reencoded", "aborted"}

\* C1: for every generic jet j, JetsNode::decode of the bits written by
\* JetsNode::encode(j), the prefix 11 already read, returns Ok(j).
C1_JetsDecodeEncode ==
    (family = "jets" /\ sent # "none" /\ Decoded)
        => (dres.tag = "ok" /\ dres.val = sent)

\* C2: for every Elements jet j, ElementsNode::decode of the bits written by
\* ElementsNode::encode(j), the prefix 10 already read, returns Ok(j).
C2_ElementsDecodeEncode ==
    (family = "elements" /\ sent # "none" /\ Decoded)
        => (dres.tag = "ok" /\ dres.val = sent)

\* C3: when a jet decoder succeeds on a stream with jet j, encode(j) writes
\* exactly the jet prefix followed by the bits the decoder consumed.
C3_EncodeDecodeIsPrefix ==
    cpc = "reencoded" => sink = PrefixOf(family) \o taken

\* The decoder was given the bits 1, 1 and a 4-bit custom code above 4.
UnassignedCustomCode ==
    /\ family = "jets"
    /\ Decoded
    /\ Len(taken) = 6
    /\ taken[1] = 1
    /\ taken[2] = 1
    /\ BitsToNat(SubSeq(taken, 3, 6)) \in 5..15

\* C4: decoding an unassigned jet code returns Error::BadJet, and the
\* decoder panics on no input.
C4_UnassignedCodeIsBadJet ==
    /\ UnassignedCustomCode => (dres.tag = "err" /\ dres.val = "BadJet")
    /\ dres.tag # "panic"

\* The wire format's code of each generic jet.
JetsWireCode(j) ==
    CASE j = "Adder32"          -> <<1, 1, 0, 0, 0, 0>>
      [] j = "Subtractor32"     -> <<1, 1, 0, 0, 0, 1>>
      [] j = "FullAdder32"      -> <<1, 1, 0, 0, 1, 0>>
      [] j = "FullSubtractor32" -> <<1, 1, 0, 0, 1, 1>>
      [] j = "Multiplier32"     -> <<1, 1, 0, 0, 1>>
      [] j = "FullMultiplier32" -> <<1, 1, 0, 1, 1>>
      [] j = "Sha256HashBlock"  -> <<1, 1, 1, 0>>
      [] j = "SchnorrAssert"    -> <<1, 1, 1, 1, 0, 0, 0, 0>>
      [] j = "EqV256"           -> <<1, 1, 1, 1, 0, 0, 0, 1>>
      [] j = "Sha256"           -> <<1, 1, 1, 1, 0, 0, 1, 0>>
      [] j = "LessThanV32"      -> <<1, 1, 1, 1, 0, 0, 1, 1>>
      [] j = "EqV32"            -> <<1, 1, 1, 1, 0, 1, 0, 0>>

\* C5: JetsNode::encode writes for each generic jet exactly the bit string
\* the wire format assigns to it.
C5_JetsEncodeWritesWireCode ==
    (cpc = "encoded" /\ family = "jets") => sink = JetsWireCode(sent)

JetsOf(fam) == IF fam = "jets" THEN JetsNode ELSE ElementsNode

\* C6: the jet codes form a prefix code: the bits written for a jet are
\* neither equal to nor a proper prefix of the bits written for another jet
\* of the same enumeration.
C6_PrefixCode ==
    cpc = "encoded" =>
        \A j2 \in JetsOf(family) \ {sent} : ~IsPrefixOf(sink, Encode(family, j2))

\* ------------------------------------------------ generic jets: the claims
AssertionJets == {"EqV256", "EqV32", "LessThanV32"}

\* The input the operation found at the read cursor.
InputBits == SubSeq(mac0.rd, mac0.rc + 1, Len(mac0.rd))

\* The predicate of the assertion jet xjet on its input.
AssertionHolds ==
    CASE xjet = "EqV256"      -> SubSeq(InputBits, 1, 256) = SubSeq(InputBits, 257, 512)
      [] xjet = "EqV32"       -> SubSeq(InputBits, 1, 32) = SubSeq(InputBits, 33, 64)
      [] xjet = "LessThanV32" -> LessBits(SubSeq(InputBits, 1, 32),
                                          SubSeq(InputBits, 33, 64))

\* C7: an assertion jet whose predicate is false ends the evaluation with
\* Error::AssertionFailed, without a panic; when the predicate holds the jet
\* succeeds and writes nothing to the write frame.
C7_AssertionJetsFailByError ==
    (xpc \in {"done", "aborted"} /\ xjet \in AssertionJets) =>
        IF AssertionHolds
        THEN xout.tag = "ok" /\ mac.wr = mac0.wr /\ mac.wc = mac0.wc
        ELSE xout.tag = "err" /\ xout.val = "AssertionFailed"

\* --------------------------------------------------- Elements: the claims
\* The bits the operation wrote: the cells of the write frame between the
\* cursor at the start and the cursor at the end.
Written == SubSeq(mac.wr, mac0.wc + 1, mac.wc)

\* The operation left the write frame and its cursor as they were.
NothingWritten == mac.wr = mac0.wr /\ mac.wc = mac0.wc

Finished == xpc \in {"done", "aborted"}

\* C8: executing Fee or OutputNullDatum, in any transaction environment and
\* machine state, fails with the error value Unimplemented (it does not
\* abort the process) and writes nothing to the write frame.
C8_UnimplementedJetsFailByError ==
    (Finished /\ xjet \in {"Fee", "OutputNullDatum"}) =>
        /\ xout.tag = "err"
        /\ xout.val = "Unimplemented"
        /\ NothingWritten

\* C9: simplicity_encode of a Confidential field whose prefix is one of the
\* two valid prefixes of its type succeeds and writes, for an Asset or a
\* Value, a 0 bit, the parity bit (1 for the odd prefix) and the 256 bits of
\* the commitment, and for a Nonce the bits 1 and 0, the parity bit and the
\* 256 bits of the commitment.
C9_ConfidentialEncodeSucceeds ==
    (Finished /\ xjet = "simplicity_encode" /\ field.f.kind = "Confidential"
        /\ field.f.prefix \in ValidPrefixes(field.ty)) =>
        /\ xout.tag = "ok"
        /\ Written = (IF field.ty = "Nonce" THEN <<1, 0>> ELSE <<0>>)
                        \o <<field.f.prefix % 2>> \o BytesToBits(field.f.data)

\* C10: for a Confidential field whose prefix is outside the valid set of
\* its type, simplicity_encode and simplicity_hash both fail with the error
\* value MalformedField (never a panic); the encoding writes nothing to the
\* write frame and the digest feeds nothing to the engine.
C10_InvalidPrefixIsMalformedField ==
    (Finished /\ xjet \in {"simplicity_encode", "simplicity_hash"}
        /\ field.f.kind = "Confidential"
        /\ field.f.prefix \notin ValidPrefixes(field.ty)) =>
        /\ xout.tag = "err"
        /\ xout.val = "MalformedField"
        /\ NothingWritten
        /\ eng = <<>>

\* ------------------------------------------------------------ TypeName
\* A TypeName is the prefix notation of a type, one character per node:
\* 1 unit, 2 bit, i 32-bit word, l 64-bit word, h 256-bit word, * product,
\* + sum.  ElementsNode::target_type:
ElementsNodeTargetType(j) ==
    CASE j = "Version" -> <<"i">>
      [] j = "LockTime" -> <<"i">>
      [] j = "InputIsPegin" -> <<"+", "1", "2">>
      [] j = "InputPrevOutpoint" -> <<"+", "1", "*", "h", "i">>
      [] j = "InputAsset" -> <<"+", "1", "+", "*", "2", "h", "h">>
      [] j = "InputAmount" -> <<"+", "1", "+", "*", "2", "h", "l">>
      [] j = "InputScriptHash" -> <<"+", "1", "h">>
      [] j = "InputSequence" -> <<"+", "1", "i">>
      [] j = "InputIssuanceBlinding" -> <<"+", "1", "+", "1", "h">>
      [] j = "InputIssuanceContract" -> <<"+", "1", "+", "1", "h">>
      [] j = "InputIssuanceEntropy" -> <<"+", "1", "+", "1", "h">>
      [] j = "InputIssuanceAssetAmount" -> <<"+", "1", "+", "1", "+", "*", "2", "h", "l">>
      [] j = "InputIssuanceTokenAmount" -> <<"+", "1", "+", "1", "+", "*", "2", "h", "l">>
      [] j = "OutputAsset" -> <<"+", "1", "+", "*", "2", "h", "h">>
      [] j = "OutputAmount" -> <<"+", "1", "+", "*", "2", "h", "l">>
      [] j = "OutputNonce" -> <<"+", "1", "+", "*", "2", "h", "h">>
      [] j = "OutputScriptHash" -> <<"+", "1", "h">>
      [] j = "OutputNullDatum" -> <<"+", "1", "+", "1", "+", "*", "*", "2", "2", "h", "+", "2", "*", "2", "2">>
      [] j = "ScriptCmr" -> <<"h">>
      [] j = "CurrentIndex" -> <<"i">>
      [] j = "CurrentIsPegin" -> <<"2">>
      [] j = "CurrentPrevOutpoint" -> <<"*", "h", "i">>
      [] j = "CurrentAsset" -> <<"+", "*", "2", "h", "h">>
      [] j = "CurrentAmount" -> <<"+", "*", "2", "h", "l">>
      [] j = "CurrentScriptHash" -> <<"h">>
      [] j = "CurrentSequence" -> <<"i">>
      [] j = "CurrentIssuanceBlinding" -> <<"+", "1", "h">>
      [] j = "CurrentIssuanceContract" -> <<"+", "1", "h">>
      [] j = "CurrentIssuanceEntropy" -> <<"+", "1", "h">>
      [] j = "CurrentIssuanceAssetAmount" -> <<"+", "1", "+", "*", "2", "h", "l">>
      [] j = "CurrentIssuanceTokenAmount" -> <<"+", "1", "+", "*", "2", "h", "l">>
      [] j = "InputsHash" -> <<"h">>
      [] j = "OutputsHash" -> <<"h">>
      [] j = "NumInputs" -> <<"i">>
      [] j = "NumOutputs" -> <<"i">>
      [] j = "Fee" -> <<"l">>

\* The width in bits of the type that starts at position pos of the name t,
\* and the position after it: [w, next].
RECURSIVE ParseWidth(_, _)
ParseWidth(t, pos) ==
    CASE t[pos] = "1" -> [w |-> 0, next |-> pos + 1]
      [] t[pos] = "2" -> [w |-> 1, next |-> pos + 1]
      [] t[pos] = "i" -> [w |-> 32, next |-> pos + 1]
      [] t[pos] = "l" -> [w |-> 64, next |-> pos + 1]
      [] t[pos] = "h" -> [w |-> 256, next |-> pos + 1]
      [] t[pos] = "*" ->
            LET a == ParseWidth(t, pos + 1)
                b == ParseWidth(t, a.next)
            IN  [w |-> a.w + b.w, next |-> b.next]
      [] t[pos] = "+" ->
            LET a == ParseWidth(t, pos + 1)
                b == ParseWidth(t, a.next)
            IN  [w |-> 1 + (IF a.w > b.w THEN a.w ELSE b.w), next |-> b.next]

\* The bit width of the type a TypeName names.
bit_width(t) == ParseWidth(t, 1).w

\* The bits the operation advanced the write cursor by.
Advance == mac.wc - mac0.wc

\* C11: after simplicity_encode of any Asset, Value or Nonce, whatever its
\* variant (Null, Explicit, Confidential), the encoding has returned and the
\* write cursor has advanced by exactly 258, 258 and 259 bits.
C11_FieldWidths ==
    (Finished /\ xjet = "simplicity_encode") =>
        /\ xout.tag = "ok"
        /\ Advance = (IF field.ty = "Nonce" THEN 259 ELSE 258)

\* C12: whenever ElementsNode::exec completes, on the valid-index path or the
\* invalid-index path, the write cursor has advanced by exactly the bit
\* width of the jet's target_type.
C12_ExecWritesTargetWidth ==
    (xpc = "done" /\ xjet \in ElementsNode) =>
        Advance = bit_width(ElementsNodeTargetType(xjet))

\* The Elements jets that read an index, OutputNullDatum apart.
IndexJets ==
    {"InputIsPegin", "InputPrevOutpoint", "InputAsset", "InputAmount",
     "InputScriptHash", "InputSequence", "InputIssuanceBlinding",
     "InputIssuanceContract", "InputIssuanceEntropy",
     "InputIssuanceAssetAmount", "InputIssuanceTokenAmount", "OutputAsset",
     "OutputAmount", "OutputNonce", "OutputScriptHash"}

\* A field that is Null, Explicit, or Confidential with a valid prefix.
WellFormed(ty, f) == f.kind = "Confidential" => f.prefix \in ValidPrefixes(ty)

\* The invariants of a TxEnv: one utxo per input, the current index within
\* them, and no malformed field in the utxos (from_txenv has digested the
\* inputs and outputs, so theirs are well formed).
EnvInvariant(env) ==
    /\ Len(env.utxos) = Len(env.tx.input)
    /\ env.ix < Len(env.utxos)
    /\ \A i \in 1..Len(env.utxos) :
            /\ WellFormed("Asset", env.utxos[i].asset)
            /\ WellFormed("Value", env.utxos[i].value)

\* A TxEnv has been constructed: from_txenv returned, or a jet has been
\* handed the environment since.
Constructed ==
    \/ xjet = "from_txenv" /\ xout.tag = "ok"
    \/ xjet \in ElementsNode

\* C13: in a TxEnv that satisfies its invariants (inputs without issuance
\* and Null or Confidential fields included), every index jet other than
\* OutputNullDatum completes without failure, whatever index it reads.
C13_IndexJetsTotal ==
    (Finished /\ xjet \in IndexJets /\ EnvInvariant(txenv)) => xout.tag = "ok"

\* C17: every TxEnv that from_txenv produces has one utxo per input and a
\* current index within them; no other TxEnv is handed to a jet.
C17_FromTxEnvInvariants ==
    Constructed =>
        /\ Len(txenv.utxos) = Len(txenv.tx.input)
        /\ txenv.ix < Len(txenv.utxos)

\* ------------------------------------------- arithmetic jets: the claims
\* Exact arithmetic to compare the jets with.  A u32 is cut into limbs small
\* enough for sums and products of limbs to be exact.

\* The number a bit string of at most 16 bits stands for.
ShortNat(bits) ==
    LET p == Zeros(16 - Len(bits)) \o bits IN 256 * ByteAt(p, 0) + ByteAt(p, 8)

\* The high and the low 16 bits of a u32, as numbers.
High16(x) == ShortNat(SubSeq(x, 1, 16))

Low16(x) == ShortNat(SubSeq(x, 17, 32))

\* a + b + c exactly, for u32 a, b and a bit c: the 33 bits of the sum.
ExactSum(a, b, c) ==
    LET lo == Low16(a) + Low16(b) + c
        hi == High16(a) + High16(b) + (lo \div 65536)
    IN  <<hi \div 65536>> \o NatToBits(hi % 65536, 16) \o NatToBits(lo % 65536, 16)

\* The operands of the arithmetic jet: the u32 a and b, and for the Full
\* adder and subtractor the bit c that follows them (0 otherwise).
OperandA == SubSeq(InputBits, 1, 32)

OperandB == SubSeq(InputBits, 33, 64)

OperandC == IF xjet \in {"FullAdder32", "FullSubtractor32"} THEN InputBits[65] ELSE 0

\* C14: Adder32 and FullAdder32 write the carry-out of a + b + c (c = 0 for
\* Adder32) followed by the sum modulo 2^32, big-endian; in FullAdder32 the
\* two overflow events never occur together and their OR is that carry-out.
C14_AdderExact ==
    (xpc = "done" /\ xjet \in {"Adder32", "FullAdder32"}) =>
        /\ Written = ExactSum(OperandA, OperandB, OperandC)
        /\ LET first  == overflowing_add(OperandA, OperandB)
               second == overflowing_add(first.res, ZeroExtend(<<OperandC>>, 32))
           IN  /\ ~(first.overflow /\ second.overflow)
               /\ (first.overflow \/ second.overflow)
                    <=> ExactSum(OperandA, OperandB, OperandC)[1] = 1

\* Adder32(0xFFFFFFFF, 1) has run and has written (1, 0).
C14_Witness ==
    /\ xpc = "done"
    /\ xjet = "Adder32"
    /\ OperandA = AllOnes(32)
    /\ OperandB = NatToBits(1, 32)
    /\ Written = <<1>> \o Zeros(32)

\* a - b - c exactly, for u32 a, b and a bit c: the borrow out (1 when the
\* difference is negative) and the 32 bits of the difference modulo 2^32.
ExactDifference(a, b, c) ==
    LET lo     == Low16(a) - Low16(b) - c
        borrow == IF lo < 0 THEN 1 ELSE 0
        hi     == High16(a) - High16(b) - borrow
    IN  <<IF hi < 0 THEN 1 ELSE 0>>
            \o NatToBits((hi + 65536) % 65536, 16)
            \o NatToBits((lo + 65536) % 65536, 16)

\* C15: Subtractor32 and FullSubtractor32 write the bit 1 iff a < b + c
\* (c = 0 for Subtractor32) followed by the difference a - b - c modulo 2^32,
\* big-endian; in FullSubtractor32 the OR of the two overflow events is that
\* borrow-out.
C15_SubtractorExact ==
    (xpc = "done" /\ xjet \in {"Subtractor32", "FullSubtractor32"}) =>
        /\ Written = ExactDifference(OperandA, OperandB, OperandC)
        /\ Written[1] = 1 <=>
                \/ LessBits(OperandA, OperandB)
                \/ OperandA = OperandB /\ OperandC = 1
        /\ LET first  == overflowing_sub(OperandA, OperandB)
               second == overflowing_sub(first.res, ZeroExtend(<<OperandC>>, 32))
           IN  (first.overflow \/ second.overflow)
                    <=> ExactDifference(OperandA, OperandB, OperandC)[1] = 1

\* FullSubtractor32(0, 0, 1) has run and has written (1, 0xFFFFFFFF): the
\* borrow comes from the second overflow event alone.
C15_Witness ==
    /\ xpc = "done"
    /\ xjet = "FullSubtractor32"
    /\ OperandA = Zeros(32)
    /\ OperandB = Zeros(32)
    /\ OperandC = 1
    /\ Written = <<1>> \o AllOnes(32)

\* The limbs of a u32, the least significant first: 11, 11 and 10 bits.
Limb(x, k) ==
    CASE k = 0 -> ShortNat(SubSeq(x, 22, 32))
      [] k = 1 -> ShortNat(SubSeq(x, 11, 21))
      [] k = 2 -> ShortNat(SubSeq(x, 1, 10))

\* a * b + c + d exactly, for u32 a, b, c, d: 66 bits, most significant
\* first.
ExactProductSum(a, b, c, d) ==
    LET col0 == Limb(a, 0) * Limb(b, 0) + Limb(c, 0) + Limb(d, 0)
        col1 == Limb(a, 0) * Limb(b, 1) + Limb(a, 1) * Limb(b, 0)
                    + Limb(c, 1) + Limb(d, 1)
        col2 == Limb(a, 0) * Limb(b, 2) + Limb(a, 1) * Limb(b, 1)
                    + Limb(a, 2) * Limb(b, 0) + Limb(c, 2) + Limb(d, 2)
        col3 == Limb(a, 1) * Limb(b, 2) + Limb(a, 2) * Limb(b, 1)
        col4 == Limb(a, 2) * Limb(b, 2)
        t1   == col1 + (col0 \div 2048)
        t2   == col2 + (t1 \div 2048)
        t3   == col3 + (t2 \div 2048)
        t4   == col4 + (t3 \div 2048)
    IN  NatToBits(t4 \div 2048, 11) \o NatToBits(t4 % 2048, 11)
            \o NatToBits(t3 % 2048, 11) \o NatToBits(t2 % 2048, 11)
            \o NatToBits(t1 % 2048, 11) \o NatToBits(col0 % 2048, 11)

\* The u32 c and d that FullMultiplier32 adds to the product (0 for
\* Multiplier32).
AddendC == IF xjet = "FullMultiplier32" THEN SubSeq(InputBits, 65, 96) ELSE Zeros(32)

AddendD == IF xjet = "FullMultiplier32" THEN SubSeq(InputBits, 97, 128) ELSE Zeros(32)

\* C16: Multiplier32 and FullMultiplier32 write a * b, and a * b + c + d,
\* exactly as a big-endian u64: the value never exceeds 2^64 - 1, so nothing
\* wraps around; the largest value, at a = b = c = d = 2^w - 1 for words of
\* w bits, is (2^w - 1)^2 + 2 * (2^w - 1) = 2^(2w) - 1.
C16_MultiplierExact ==
    /\ (xpc = "done" /\ xjet \in {"Multiplier32", "FullMultiplier32"}) =>
            LET exact == ExactProductSum(OperandA, OperandB, AddendC, AddendD)
            IN  /\ SubSeq(exact, 1, 2) = <<0, 0>>
                /\ Written = SubSeq(exact, 3, 66)
    /\ \A w \in 1..15 :
            (Pow2(w) - 1) * (Pow2(w) - 1) + 2 * (Pow2(w) - 1) = Pow2(2 * w) - 1

\* FullMultiplier32 has run on a = b = c = d = 2^32 - 1 and has written
\* 2^64 - 1.
C16_Witness ==
    /\ xpc = "done"
    /\ xjet = "FullMultiplier32"
    /\ OperandA = AllOnes(32)
    /\ OperandB = AllOnes(32)
    /\ AddendC = AllOnes(32)
    /\ AddendD = AllOnes(32)
    /\ Written = AllOnes(64)

\* ------------------------------------------------- TxEnv: the claims
\* The digests of the inputs, each taken on an engine of its own, one after
\* the other in the order of the vector; likewise for the outputs.
RECURSIVE InputDigests(_)
InputDigests(inputs) ==
    IF Len(inputs) = 0 THEN <<>>
    ELSE TxInHash(Head(inputs), Fed(<<>>)).eng \o InputDigests(Tail(inputs))

RECURSIVE OutputDigests(_)
OutputDigests(outputs) ==
    IF Len(outputs) = 0 THEN <<>>
    ELSE TxOutHash(Head(outputs), Fed(<<>>)).eng \o OutputDigests(Tail(outputs))

\* The jet xjet has returned after writing the 32 bytes.
Wrote(j, bytes) == (xpc = "done" /\ xjet = j) => Written = BytesToBits(bytes)

\* C18: once constructed, a TxEnv never changes, whatever jets are executed
\* against it: InputsHash, OutputsHash and ScriptCmr write the values it was
\* constructed with, and inputs_hash and outputs_hash are the SHA-256 of the
\* digests of the inputs, and of the outputs, concatenated in order.
C18_TxEnvImmutable ==
    /\ [][Constructed => txenv' = txenv]_vars
    /\ [](Constructed =>
            /\ txenv.inputs_hash = sha256_hash(InputDigests(txenv.tx.input))
            /\ txenv.outputs_hash = sha256_hash(OutputDigests(txenv.tx.output))
            /\ txenv.script_cmr = Bytes32(17))
    /\ [](/\ Wrote("InputsHash", txenv.inputs_hash)
          /\ Wrote("OutputsHash", txenv.outputs_hash)
          /\ Wrote("ScriptCmr", txenv.script_cmr))

\* InputsHash has returned as the second jet executed against a TxEnv of two
\* inputs, and has written the digest of both.
C18_Witness ==
    /\ xpc = "done"
    /\ xjet = "InputsHash"
    /\ runs = 2
    /\ Len(txenv.tx.input) = 2
    /\ Written = BytesToBits(sha256_hash(InputDigests(txenv.tx.input)))

\* ------------------------------------------- truncated codes: the claim
\* The stream the decoder was given: what it took and what it left.
Stream == taken \o iter

\* The primary codes of ElementsNode that take a distinguishing extra bit.
PairedCodes == {0, 4, 8, 12}

\* The stream s ends before the code it starts is complete.  ElementsNode:
\* fewer than the 5 primary bits, or a paired code without its extra bit.
\* JetsNode: after 0, fewer than the 2 code bits, or code 00 or 10 without
\* its extra bit; after 1, no second bit; after 11, fewer than 4 code bits.
Truncated(fam, s) ==
    IF fam = "elements"
    THEN \/ Len(s) < 5
         \/ Len(s) = 5 /\ BitsToNat(s) \in PairedCodes
    ELSE \/ Len(s) = 0
         \/ s[1] = 0 /\ Len(s) < 3
         \/ s[1] = 0 /\ Len(s) = 3 /\ s[3] = 0
         \/ s[1] = 1 /\ Len(s) = 1
         \/ Len(s) >= 2 /\ s[1] = 1 /\ s[2] = 1 /\ Len(s) < 6

\* C19: a decoder whose stream ends before the jet's code is complete
\* returns Error::EndOfStream, for JetsNode::decode and ElementsNode::decode
\* alike, and never a jet.
C19_TruncatedIsEndOfStream ==
    (cpc \in {"decoded", "aborted"} /\ Truncated(family, Stream)) =>
        /\ dres.tag = "err"
        /\ dres.val = "EndOfStream"

\* ElementsNode::decode has been given the paired code 00100 without its
\* extra bit and has returned EndOfStream.
C19_Witness ==
    /\ cpc = "decoded"
    /\ family = "elements"
    /\ Stream = <<0, 0, 1, 0, 0>>
    /\ dres.tag = "err"
    /\ dres.val = "EndOfStream"

\* ------------------------------------------- frame limits: the claim
\* The primitive op(k) would take the cursor of m's active frame outside
\* the frame.
Crosses(m, op, k) ==
    CASE op \in {"read", "fwd"}   -> m.rc + k > Len(m.rd)
      [] op = "back"              -> m.rc - k < 0
      [] op \in {"write", "skip"} -> m.wc + k > Len(m.wr)

\* The cursors of m after op(k) moved the one it is about by exactly k.
Moved(m, op, k) ==
    CASE op \in {"read", "fwd"}   -> [rc |-> m.rc + k, wc |-> m.wc]
      [] op = "back"              -> [rc |-> m.rc - k, wc |-> m.wc]
      [] op \in {"write", "skip"} -> [rc |-> m.rc, wc |-> m.wc + k]

Cursors(m) == [rc |-> m.rc, wc |-> m.wc]

\* C20: after any sequence of primitives the cursor of a frame lies within
\* the frame, 0 <= c <= n; a read, write, skip, fwd or back that would take
\* the cursor outside fails with OutOfBounds and leaves the cursor where it
\* was, neither saturating nor wrapping, and any other moves it by k.
C20_CursorWithinFrame ==
    /\ 0 <= mac.rc /\ mac.rc <= Len(mac.rd)
    /\ 0 <= mac.wc /\ mac.wc <= Len(mac.wr)
    /\ (xjet = "machine" /\ runs > 0 /\ mac0.fail = "none") =>
          IF Crosses(mac0, xout.tag, xout.val)
          THEN mac.fail = "OutOfBounds" /\ Cursors(mac) = Cursors(mac0)
          ELSE mac.fail = "none" /\ Cursors(mac) = Moved(mac0, xout.tag, xout.val)

\* After a fwd to the end of the frame, a back of one bit more than the
\* frame holds has failed with OutOfBounds, the cursor still at the end.
C20_Witness ==
    /\ xjet = "machine"
    /\ runs = 2
    /\ xout = [tag |-> "back", val |-> MaxFrame + 1]
    /\ mac0.fail = "none"
    /\ mac0.rc = MaxFrame
    /\ mac.rc = MaxFrame
    /\ mac.fail = "OutOfBounds"

\* --------------------------------------------- frame hand-over: the claim
\* The frame pushed with new_frame has been handed over to the read stack.
HandedOver == xjet \in {"move_frame", "read_bit", "drop_frame"} /\ mac.read # <<>>

Index == SubSeq(mac0.rd, mac0.rc + 1, mac0.rc + 32)

\* The vector an index jet looks its index up in.
IndexedVector(j) ==
    IF j \in {"OutputAsset", "OutputAmount", "OutputNonce", "OutputScriptHash"}
    THEN txenv.tx.output
    ELSE txenv.tx.input

\* The u32 x is less than len.
InRange(x, len) == \E k \in 0..(len - 1) : x = U32(k)

\* The width of what an index jet writes after the validity bit: a bit, an
\* outpoint (txid and vout), an asset or a value (258), a nonce (259), a
\* hash, a sequence number, a presence tag and a hash, a presence tag and a
\* value.
PayloadWidth(j) ==
    CASE j = "InputIsPegin"      -> 1
      [] j = "InputPrevOutpoint" -> 288
      [] j \in {"InputAsset", "InputAmount", "OutputAsset", "OutputAmount"} -> 258
      [] j = "OutputNonce"       -> 259
      [] j \in {"InputScriptHash", "OutputScriptHash"} -> 256
      [] j = "InputSequence"     -> 32
      [] j \in {"InputIssuanceBlinding", "InputIssuanceContract",
                "InputIssuanceEntropy"} -> 257
      [] j \in {"InputIssuanceAssetAmount", "InputIssuanceTokenAmount"} -> 259

\* C22: on a TxEnv that satisfies its invariants, every index jet reads one
\* u32, writes a validity bit equal to (index < length of tx.input for an
\* Input jet, of tx.output for an Output jet), and on an index out of range
\* returns after the bit 0 and a skip of the width of the payload, whose bits
\* stay zero; InputIsPegin on a valid index writes 1 and the is_pegin bit.
C22_IndexJetsValidityBit ==
    (Finished /\ xjet \in IndexJets /\ EnvInvariant(txenv)) =>
        LET valid == InRange(Index, Len(IndexedVector(xjet)))
        IN  /\ mac.rc = mac0.rc + 32
            /\ Advance >= 1
            /\ Written[1] = (IF valid THEN 1 ELSE 0)
            /\ ~valid =>
                  /\ xpc = "done"
                  /\ Written = Zeros(1 + PayloadWidth(xjet))
            /\ (valid /\ xjet = "InputIsPegin") =>
                  /\ xpc = "done"
                  /\ \E k \in 1..Len(txenv.tx.input) :
                        /\ Index = U32(k - 1)
                        /\ Written = <<1, BoolBit(txenv.tx.input[k].is_pegin)>>

\* InputPrevOutpoint with one input and index 2 has written the bit 0 and
\* skipped 288 bits.
C22_Witness ==
    /\ xpc = "done"
    /\ xjet = "InputPrevOutpoint"
    /\ EnvInvariant(txenv)
    /\ Len(txenv.tx.input) = 1
    /\ Index = U32(2)
    /\ Written = Zeros(289)

\* --------------------------------------------- issuance jets: the claims
\* exec's own preconditions on the TxEnv: one utxo per input and the current
\* index within them.
ExecPrecondition ==
    /\ Len(txenv.utxos) = Len(txenv.tx.input)
    /\ txenv.ix < Len(txenv.utxos)

CurrentJets ==
    {"CurrentIsPegin", "CurrentPrevOutpoint", "CurrentAsset", "CurrentAmount",
     "CurrentScriptHash", "CurrentSequence", "CurrentIssuanceBlinding",
     "CurrentIssuanceContract", "CurrentIssuanceEntropy",
     "CurrentIssuanceAssetAmount", "CurrentIssuanceTokenAmount"}

\* The jet that ran was about an input of the transaction: a Current jet, or
\* an Input jet that read a valid index.
AboutAnInput ==
    /\ Finished
    /\ ExecPrecondition
    /\ \/ xjet \in CurrentJets
       \/ xjet \in IndexJets /\ InRange(Index, Len(txenv.tx.input))

\* That input.
Subject ==
    IF xjet \in CurrentJets THEN txenv.tx.input[txenv.ix + 1]
    ELSE txenv.tx.input[usize(Index) + 1]

\* What the jet wrote for that input: all of it for a Current jet, what
\* follows the validity bit for an Input jet.
Payload == IF xjet \in CurrentJets THEN Written ELSE Tail(Written)

\* The 258 bits of a Value on the write frame: 1, skip(1 + 192) and the 64
\* bits of an explicit amount; 0, the parity of the prefix and the 256 bits
\* of a commitment.
ValueBits(f) ==
    IF f.kind = "Explicit" THEN <<1>> \o Zeros(193) \o f.data
    ELSE <<0, f.prefix % 2>> \o BytesToBits(f.data)

\* An optional value on the write frame: the presence tag 1 and the value,
\* or the tag 0 and 258 bits skipped.
OptionalValue(present, f) ==
    IF present THEN <<1>> \o ValueBits(f) ELSE Zeros(1 + 258)

\* C23: InputIssuanceAssetAmount on a valid index and
\* CurrentIssuanceAssetAmount return, having written the presence tag 1 and
\* the 258 bits of the amount if the input has an issuance whose amount is
\* not Null, and the tag 0 and a skip of 258 bits otherwise.
C23_IssuanceAssetAmount ==
    (AboutAnInput /\ xjet \in {"InputIssuanceAssetAmount",
                               "CurrentIssuanceAssetAmount"}) =>
        LET amount == Subject.asset_issuance.amount
        IN  /\ xpc = "done"
            /\ Payload = OptionalValue(has_issuance(Subject) /\ amount.kind # "Null",
                                       amount)

\* C24: InputIssuanceTokenAmount on a valid index and
\* CurrentIssuanceTokenAmount return, having written the presence tag 1 and
\* the 258 bits of the inflation amount if the input has an issuance whose
\* inflation_keys is not Null, and the tag 0 and a skip of 258 bits
\* otherwise: the amount that decides the tag is the one encoded.
C24_IssuanceTokenAmount ==
    (AboutAnInput /\ xjet \in {"InputIssuanceTokenAmount",
                               "CurrentIssuanceTokenAmount"}) =>
        LET keys == Subject.asset_issuance.inflation_keys
        IN  /\ xpc = "done"
            /\ Payload = OptionalValue(has_issuance(Subject) /\ keys.kind # "Null",
                                       keys)

\* The blinding nonce of the issuance has a byte that is not zero.
NonZeroNonce(issuance) == \E i \in 1..32 : issuance.asset_blinding_nonce[i] # 0

\* An optional hash on the write frame: the presence tag 1 and the 32 bytes,
\* or the tag 0 and 256 bits skipped.
OptionalHash(present, bytes) ==
    IF present THEN <<1>> \o BytesToBits(bytes) ELSE Zeros(1 + 256)

LeastFirst(x) == <<ByteAt(x, 24), ByteAt(x, 16), ByteAt(x, 8), ByteAt(x, 0)>>

\* The bytes a TxIn feeds the engine: the txid, vout, sequence, and the
\* digest of the issuance or the two bytes 0x00 0x00.
TxInBytes(inp) ==
    inp.previous_output.txid
        \o LeastFirst(inp.previous_output.vout)
        \o LeastFirst(inp.sequence)
        \o (IF has_issuance(inp)
            THEN AssetIssuanceHash(inp.asset_issuance, Fed(<<>>)).eng
            ELSE <<0, 0>>)

RECURSIVE TxInsBytes(_)
TxInsBytes(inputs) ==
    IF Len(inputs) = 0 THEN <<>>
    ELSE TxInBytes(Head(inputs)) \o TxInsBytes(Tail(inputs))

\* A digest of a component of type ty has been taken.
Digested(ty) ==
    xpc = "done" /\ xjet = ty \o "::simplicity_hash" /\ field.ty = ty

\* C26: the digest of a TxIn feeds the engine the 32 bytes of the txid, vout
\* as 4 little-endian bytes, sequence as 4 little-endian bytes, then the
\* digest of the issuance if the input has one and the bytes 0x00 0x00 if it
\* has none; inputs_hash is the hash of these bytes for each input in turn.
C26_TxInDigest ==
    /\ Digested("TxIn") => eng = TxInBytes(field.f)
    /\ Constructed => txenv.inputs_hash = sha256_hash(TxInsBytes(txenv.tx.input))

\* The digest of an input without issuance has been taken: 32 + 4 + 4 + 2
\* bytes, the sequence 0x00000005 as 05 00 00 00.
C26_Witness ==
    /\ Digested("TxIn")
    /\ field.f = PeginInput
    /\ Len(eng) = 42
    /\ SubSeq(eng, 37, 42) = <<5, 0, 0, 0, 0, 0>>

\* The eight bytes of a u64, the most significant first.
MostFirst(x) == [k \in 1..8 |-> ByteAt(x, 8 * (k - 1))]

\* The bytes a confidential field feeds the engine: 0x00 for Null; 0x01 and
\* the payload for Explicit, the payload of a Value as 8 big-endian bytes;
\* the prefix and the commitment for Confidential.
FieldBytes(ty, f) ==
    CASE f.kind = "Null"         -> <<0>>
      [] f.kind = "Explicit"     ->
            <<1>> \o (IF ty = "Value" THEN MostFirst(f.data) ELSE f.data)
      [] f.kind = "Confidential" -> <<f.prefix>> \o f.data

\* C27: the digest of an AssetIssuance is the digest of the amount, then the
\* digest of inflation_keys for a new issue or the byte 0x00 for a reissue,
\* whatever inflation_keys it stores, then the blinding nonce and the entropy;
\* the digest of a field is 0x00, or 0x01 and the payload, or the prefix and
\* the commitment.
C27_IssuanceDigest ==
    /\ Digested("AssetIssuance") =>
          eng = FieldBytes("Value", field.f.amount)
                  \o (IF NonZeroNonce(field.f) THEN <<0>>
                      ELSE FieldBytes("Value", field.f.inflation_keys))
                  \o field.f.asset_blinding_nonce
                  \o field.f.asset_entropy
    /\ (xpc = "done" /\ xjet = "simplicity_hash" /\ field.ty \in FieldTypes) =>
          eng = FieldBytes(field.ty, field.f)

\* The digest of a reissue that stores inflation keys has been taken: the
\* explicit amount (9 bytes), 0x00, the nonce and the entropy.
C27_Witness ==
    /\ Digested("AssetIssuance")
    /\ NonZeroNonce(field.f)
    /\ field.f.inflation_keys.kind = "Explicit"
    /\ Len(eng) = 9 + 1 + 32 + 32
    /\ eng[10] = 0

\* ------------------------------------- generic jets and their types: the claim
\* JetsNode::source_type
JetsNodeSourceType(j) ==
    CASE j = "Adder32"          -> <<"l">>
      [] j = "FullAdder32"      -> <<"*", "l", "2">>
      [] j = "Subtractor32"     -> <<"l">>
      [] j = "FullSubtractor32" -> <<"*", "l", "2">>
      [] j = "Multiplier32"     -> <<"l">>
      [] j = "FullMultiplier32" -> <<"*", "l", "l">>
      [] j = "Sha256HashBlock"  -> <<"*", "h", "*", "h", "h">>
      [] j = "SchnorrAssert"    -> <<"*", "h", "*", "h", "h">>
      [] j = "EqV256"           -> <<"*", "h", "h">>
      [] j = "Sha256"           -> <<"*", "h", "h">>
      [] j = "LessThanV32"      -> <<"l">>
      [] j = "EqV32"            -> <<"l">>

\* JetsNode::target_type
JetsNodeTargetType(j) ==
    CASE j = "Adder32"          -> <<"*", "2", "i">>
      [] j = "FullAdder32"      -> <<"*", "2", "i">>
      [] j = "Subtractor32"     -> <<"*", "2", "i">>
      [] j = "FullSubtractor32" -> <<"*", "2", "i">>
      [] j = "Multiplier32"     -> <<"l">>
      [] j = "FullMultiplier32" -> <<"l">>
      [] j = "Sha256HashBlock"  -> <<"h">>
      [] j = "SchnorrAssert"    -> <<"1">>
      [] j = "EqV256"           -> <<"1">>
      [] j = "Sha256"           -> <<"h">>
      [] j = "LessThanV32"      -> <<"1">>
      [] j = "EqV32"            -> <<"1">>

\* The bits the operation advanced the read cursor by.
Consumed == mac.rc - mac0.rc

\* C28: whenever JetsNode::exec returns, it has read exactly as many bits as
\* its source_type is wide and written exactly as many as its target_type is
\* wide, whatever the input.
C28_ExecMatchesTypes ==
    (xpc = "done" /\ xjet \in JetsNode) =>
        /\ Consumed = bit_width(JetsNodeSourceType(xjet))
        /\ Advance = bit_width(JetsNodeTargetType(xjet))

\* ------------------------------------------------ Current jets: the claim
\* The Input jet a Current jet stands for.
InputCounterpart(j) ==
    CASE j = "CurrentIsPegin"             -> "InputIsPegin"
      [] j = "CurrentPrevOutpoint"        -> "InputPrevOutpoint"
      [] j = "CurrentAsset"               -> "InputAsset"
      [] j = "CurrentAmount"              -> "InputAmount"
      [] j = "CurrentScriptHash"          -> "InputScriptHash"
      [] j = "CurrentSequence"            -> "InputSequence"
      [] j = "CurrentIssuanceBlinding"    -> "InputIssuanceBlinding"
      [] j = "CurrentIssuanceContract"    -> "InputIssuanceContract"
      [] j = "CurrentIssuanceEntropy"     -> "InputIssuanceEntropy"
      [] j = "CurrentIssuanceAssetAmount" -> "InputIssuanceAssetAmount"
      [] j = "CurrentIssuanceTokenAmount" -> "InputIssuanceTokenAmount"

\* The outcome of the Input jet that xjet stands for, run on the index ix in
\* the same environment.
OnCurrentIndex ==
    ElementsNodeExec(InputCounterpart(xjet), StartMachine(U32(txenv.ix), 0), txenv)

\* C29: on a TxEnv that satisfies its invariants, a Current jet returns
\* exactly when the Input jet it stands for returns on the index ix, and it
\* has then written the bits the Input jet writes after its validity bit.
C29_CurrentIsInputAtIx ==
    (Finished /\ xjet \in CurrentJets /\ EnvInvariant(txenv)) =>
        LET r == OnCurrentIndex
        IN  /\ (xpc = "done") <=> (r.tag = "ok")
            /\ xpc = "done" => Written = Tail(SubSeq(r.mac.wr, 1, r.mac.wc))

\* ------------------------------------------------------- CMRs: the claim
\* C30: no two distinct jets commit to the same thing: the tags of the 36
\* Elements jets differ from one another, and so do the 32-byte constants
\* chained onto the tag of the 12 generic jets, so that two distinct jets,
\* of one family or of both, never have the same CMR.
C30_DistinctCmrs ==
    \A a \in 1..Len(cmrs), b \in 1..Len(cmrs) :
        cmrs[a].jet # cmrs[b].jet => cmrs[a].cmr # cmrs[b].cmr

\* The CMRs of SchnorrAssert and EqV256 have been computed: their constants
\* differ in the last byte alone.
C30_Witness ==
    /\ Len(cmrs) = 2
    /\ cmrs[1].jet = "SchnorrAssert"
    /\ cmrs[2].jet = "EqV256"
    /\ SubSeq(cmrs[1].cmr.blocks[1], 1, 31) = SubSeq(cmrs[2].cmr.blocks[1], 1, 31)
    /\ cmrs[1].cmr.blocks[1][32] = 155
    /\ cmrs[2].cmr.blocks[1][32] = 156

====
